---------------------------- MODULE Spec2Model ----------------------------
(***************************************************************************)
(* A model of the encoding core and the main window of the bulk video      *)
(* converter: FileManager (filename templates, the shared counter),        *)
(* VideoEncoder (convert_video, the two-pass target-size encode,           *)
(* batch_convert) and MainWindow/EncoderThread (the batch loop of the UI). *)
(*                                                                         *)
(* Strings are sequences of one-character strings, so that substitution,  *)
(* the safety filter and path suffixing are computed as the code computes *)
(* them.                                                                   *)
(***************************************************************************)
EXTENDS Integers, Sequences, FiniteSets, TLC

(***************************************************************************)
(* Bounds of the model.                                                    *)
(***************************************************************************)
\* Calls of apply_prefix_template made on the shared FileManager.
MaxCalls == 3
\* Length of the input list handed to batch_convert.
MaxInputs == 3
\* Names tempfile can give a scratch directory.
MaxTmp == 2
\* Encoder threads the main window starts in one behaviour.
MaxThreads == 2
\* Rows of the file list.
MaxFiles == 2
\* Calls of apply_prefix_template with names and templates of any shape.
MaxResolves == 1
\* Progress increments of an encoder thread before it calls the backend
\* (`range(1, 101)` makes a hundred).
ProgressSteps == 2

(***************************************************************************)
(* Strings.                                                                *)
(***************************************************************************)
S_filename == <<"f","i","l","e","n","a","m","e">>
S_ext == <<"e","x","t">>
S_date == <<"d","a","t","e">>
S_time == <<"t","i","m","e">>
S_datetime == <<"d","a","t","e","t","i","m","e">>
S_create_date == <<"c","r","e","a","t","e","_","d","a","t","e">>
S_size == <<"s","i","z","e">>
S_resolution == <<"r","e","s","o","l","u","t","i","o","n">>
S_codec == <<"c","o","d","e","c">>
S_duration == <<"d","u","r","a","t","i","o","n">>
S_counter == <<"c","o","u","n","t","e","r">>
S_quality == <<"q","u","a","l","i","t","y">>
S_source == <<"s","o","u","r","c","e">>
S_source_full == <<"s","o","u","r","c","e","_","f","u","l","l">>

\* f"{{{placeholder}}}" of apply_prefix_template
Braced(name) == <<"{">> \o name \o <<"}">>

\* str(n) for a natural number
RECURSIVE IntToStr(_)
IntToStr(n) ==
    LET d == <<"0","1","2","3","4","5","6","7","8","9">>[(n % 10) + 1]
    IN IF n < 10 THEN <<d>> ELSE IntToStr(n \div 10) \o <<d>>

\* str.replace(old, new): every non-overlapping occurrence, left to right
RECURSIVE StrReplace(_, _, _)
StrReplace(s, old, new) ==
    IF Len(s) < Len(old) THEN s
    ELSE IF SubSeq(s, 1, Len(old)) = old
         THEN new \o StrReplace(SubSeq(s, Len(old) + 1, Len(s)), old, new)
         ELSE <<Head(s)>> \o StrReplace(Tail(s), old, new)

\* whether old occurs in s
RECURSIVE StrContains(_, _)
StrContains(s, old) ==
    IF Len(s) < Len(old) THEN FALSE
    ELSE SubSeq(s, 1, Len(old)) = old \/ StrContains(Tail(s), old)

\* the character class [\\/*?:"<>|] of get_safe_filename and validate_template
InvalidChars == {"\\", "/", "*", "?", ":", "\"", "<", ">", "|"}

\* str.strip('. ')
RECURSIVE LStrip(_)
LStrip(s) == IF s # <<>> /\ Head(s) \in {".", " "} THEN LStrip(Tail(s)) ELSE s

RECURSIVE RStrip(_)
RStrip(s) ==
    IF s # <<>> /\ s[Len(s)] \in {".", " "} THEN RStrip(SubSeq(s, 1, Len(s) - 1)) ELSE s

S_unnamed_file == <<"u","n","n","a","m","e","d","_","f","i","l","e">>

\* strip('. ') that strips the front only
get_safe_filename_LeadingOnly(filename) ==
    LET replaced == [i \in 1..Len(filename) |->
                        IF filename[i] \in InvalidChars THEN "_" ELSE filename[i]]
        stripped == LStrip(replaced)
    IN IF stripped = <<>> THEN S_unnamed_file ELSE stripped

\* FileManager.get_safe_filename
get_safe_filename(filename) ==
    LET replaced == [i \in 1..Len(filename) |->
                        IF filename[i] \in InvalidChars THEN "_" ELSE filename[i]]
        stripped == RStrip(LStrip(replaced))
    IN IF stripped = <<>> THEN S_unnamed_file ELSE stripped


(***************************************************************************)
(* Input files.  A path is kept as pathlib splits it: parent, the parent's *)
(* name, stem and suffix.                                                  *)
(***************************************************************************)
P_ax == [parent |-> <<"/","a">>, parent_name |-> <<"a">>, stem |-> <<"x">>,
         suffix |-> <<".","m","p","4">>]
P_bx == [parent |-> <<"/","b">>, parent_name |-> <<"b">>, stem |-> <<"x">>,
         suffix |-> <<".","m","p","4">>]
P_ay == [parent |-> <<"/","a">>, parent_name |-> <<"a">>, stem |-> <<"y">>,
         suffix |-> <<".","a","v","i">>]
Paths == {P_ax, P_bx, P_ay}

\* files whose names put the template engine to the test: a stem that reads as
\* a placeholder, a stem with a colon between a leading space and a trailing
\* dot, a stem of dots and spaces only
P_placeholder == [parent |-> <<"/","a">>, parent_name |-> <<"a">>,
                  stem |-> <<"{","q","u","a","l","i","t","y","}">>,
                  suffix |-> <<".","m","p","4">>]
P_odd == [parent |-> <<"/","a">>, parent_name |-> <<"a">>,
          stem |-> <<" ","a",":","b",".">>, suffix |-> <<".","m","p","4">>]
P_dots == [parent |-> <<"/","b">>, parent_name |-> <<"b">>,
           stem |-> <<"."," ">>, suffix |-> <<".","m","p","4">>]
OddPaths == {P_placeholder, P_odd, P_dots}

\* the files that exist; P_ay and P_dots are paths of files that are missing
ExistingFiles == {P_ax, P_bx, P_placeholder, P_odd}

\* what stat() and the clock give get_file_info
StatSizeMb(path) == IF path.stem = <<"x">> THEN <<"1",".","5">> ELSE <<"2",".","0">>
StatCreateDate(path) == <<"2","0","2","3","-","1","2","-","3","1">>
NowDate == <<"2","0","2","4","-","0","1","-","0","2">>
NowTime == <<"0","3","-","0","4","-","0","5">>
NowDateTime == NowDate \o <<"_">> \o NowTime

\* quality labels
Q_720p == <<"7","2","0","p">>
Q_medium == <<"m","e","d","i","u","m">>
Qualities == {Q_720p, Q_medium}
\* labels a caller can pass that are not presets
Q_placeholder == <<"{","c","o","u","n","t","e","r","}">>
Q_slash == <<"a","/","b">>
OddQualities == {Q_placeholder, Q_slash}

\* filename templates
T_filename == Braced(S_filename)
T_filename_quality == Braced(S_filename) \o <<"_">> \o Braced(S_quality)
T_filename_counter == Braced(S_filename) \o <<"_">> \o Braced(S_counter)
T_counter == Braced(S_counter)
Templates == {T_filename, T_filename_quality, T_filename_counter, T_counter}
\* templates no validation has seen: illegal characters around placeholders,
\* literal text only, dots and spaces only, the empty string
T_odd == <<" ",".">> \o Braced(S_filename) \o <<":">> \o Braced(S_quality) \o <<"|","."," ">>
T_literal == <<"a","/","b">>
T_blank == <<" ","."," ">>
T_empty == <<>>
OddTemplates == {T_odd, T_literal, T_blank, T_empty}
\* a template with the placeholder of the source directory
T_source_filename == Braced(S_source) \o <<"_">> \o Braced(S_filename)

(***************************************************************************)
(* Video info dictionaries.  keys is the set of keys the dictionary holds  *)
(* ({} is the empty dictionary get_video_info returns on a failed probe);  *)
(* duration_is_number is FALSE for a dictionary whose 'duration' is not a  *)
(* number (round() raises TypeError on it).                                *)
(***************************************************************************)
S_h264 == <<"h","2","6","4">>
VI_Empty == [keys |-> {}, width |-> 0, height |-> 0, codec |-> <<>>,
             duration |-> 0, duration_is_number |-> TRUE, fps |-> 0]
VI_Full(d, f) == [keys |-> {"width", "height", "duration", "codec", "fps"},
                  width |-> 640, height |-> 360, codec |-> S_h264,
                  duration |-> d, duration_is_number |-> TRUE, fps |-> f]
VI_BadDuration == [keys |-> {"duration"}, width |-> 0, height |-> 0, codec |-> <<>>,
                   duration |-> 0, duration_is_number |-> FALSE, fps |-> 0]
VideoInfos == {VI_Empty, VI_Full(120, 30), VI_BadDuration}

(***************************************************************************)
(* FileManager.  An info dictionary is the sequence of its items in        *)
(* insertion order, which is the order the substitution loop visits them.  *)
(***************************************************************************)
Item(k, v) == [k |-> k, v |-> v]

\* FileManager.__init__: self.counter = 1
FileManager_init == 1

\* FileManager._get_default_file_info
get_default_file_info(counter, path) ==
    << Item(S_filename, path.stem),
       Item(S_ext, Tail(path.suffix)),
       Item(S_date, NowDate),
       Item(S_time, NowTime),
       Item(S_datetime, NowDateTime),
       Item(S_create_date, NowDate),
       Item(S_size, <<"0">>),
       Item(S_counter, IntToStr(counter)),
       Item(S_resolution, <<>>),
       Item(S_codec, <<>>),
       Item(S_duration, <<>>),
       Item(S_quality, <<>>) >>

\* FileManager.get_file_info
get_file_info(counter, path, file_exists) ==
    IF ~file_exists THEN get_default_file_info(counter, path)
    ELSE << Item(S_filename, path.stem),
            Item(S_ext, Tail(path.suffix)),
            Item(S_date, NowDate),
            Item(S_time, NowTime),
            Item(S_datetime, NowDateTime),
            Item(S_create_date, StatCreateDate(path)),
            Item(S_size, StatSizeMb(path)),
            Item(S_counter, IntToStr(counter)),
            Item(S_source, path.parent_name),
            Item(S_source_full, path.parent),
            Item(S_resolution, <<>>),
            Item(S_codec, <<>>),
            Item(S_duration, <<>>),
            Item(S_quality, <<>>) >>

\* info[key] = value for a key the dictionary already holds
SetItem(info, key, value) ==
    [i \in 1..Len(info) |-> IF info[i].k = key THEN Item(key, value) ELSE info[i]]

\* the loop `for placeholder, value in info.items(): result = result.replace(...)`
RECURSIVE SubstituteAll(_, _)
SubstituteAll(result, info) ==
    IF info = <<>> THEN result
    ELSE SubstituteAll(StrReplace(result, Braced(Head(info).k), Head(info).v), Tail(info))

\* the lines that add the video info: whether they raise
VideoInfoRaises(video_info) ==
    /\ video_info.keys # {}
    /\ "duration" \in video_info.keys
    /\ ~video_info.duration_is_number

\* the info dictionary after the video info and the quality were added
InfoWithVideo(info, video_info, quality) ==
    LET i1 == IF video_info.keys # {} /\ {"width", "height"} \subseteq video_info.keys
              THEN SetItem(info, S_resolution,
                           IntToStr(video_info.width) \o <<"x">> \o IntToStr(video_info.height))
              ELSE info
        i2 == IF video_info.keys # {} /\ "codec" \in video_info.keys
              THEN SetItem(i1, S_codec, video_info.codec)
              ELSE i1
        i3 == IF video_info.keys # {} /\ "duration" \in video_info.keys
              THEN SetItem(i2, S_duration, IntToStr(video_info.duration) \o <<".","0">>)
              ELSE i2
    IN SetItem(i3, S_quality, quality)

\* apply_prefix_template without its try/except
apply_prefix_template_NoExcept(counter, template, path, file_exists, video_info, quality) ==
    IF VideoInfoRaises(video_info)
    THEN [filename |-> <<>>, counter |-> counter, raised |-> TRUE,
          fallback |-> FALSE, counter_value |-> counter]
    ELSE LET info == InfoWithVideo(get_file_info(counter, path, file_exists),
                                   video_info, quality)
         IN [filename |-> get_safe_filename(SubstituteAll(template, info)),
             counter |-> counter + 1, raised |-> FALSE,
             fallback |-> FALSE, counter_value |-> counter]

\* FileManager.apply_prefix_template: the filename returned, the counter
\* afterwards, whether an exception left the call, whether the except branch
\* (the fallback) was taken, and the value the {counter} placeholder stood for
apply_prefix_template(counter, template, path, file_exists, video_info, quality) ==
    IF VideoInfoRaises(video_info)
    THEN [filename |-> get_safe_filename(path.stem), counter |-> counter,
          raised |-> FALSE, fallback |-> TRUE, counter_value |-> counter]
    ELSE LET info == InfoWithVideo(get_file_info(counter, path, file_exists),
                                   video_info, quality)
         IN [filename |-> get_safe_filename(SubstituteAll(template, info)),
             counter |-> counter + 1, raised |-> FALSE,
             fallback |-> FALSE, counter_value |-> counter]

\* a call of apply_prefix_template as fm_last keeps it: what it was given and
\* what came of it
LastCall(r, template, path, file_exists, video_info, quality) ==
    [filename |-> r.filename, counter |-> r.counter, raised |-> r.raised,
     fallback |-> r.fallback, counter_value |-> r.counter_value,
     template |-> template, path |-> path, file_exists |-> file_exists,
     video_info |-> video_info, quality |-> quality]


(***************************************************************************)
(* VideoEncoder: presets, formats, the probe.                              *)
(***************************************************************************)
\* VideoEncoder.QUALITY_PRESETS.get(quality, QUALITY_PRESETS['medium'])
quality_settings(quality) ==
    IF quality = Q_720p
    THEN [has_resolution |-> TRUE, width |-> 1280, height |-> 720, crf |-> 20,
          preset |-> "medium"]
    ELSE [has_resolution |-> FALSE, width |-> 0, height |-> 0, crf |-> 23,
          preset |-> "medium"]

\* VideoEncoder.SUPPORTED_FORMATS, against the suffix of the input
SUPPORTED_FORMATS ==
    { <<".","m","p","4">>, <<".","a","v","i">>, <<".","m","k","v">>, <<".","m","o","v">>,
      <<".","w","m","v">>, <<".","f","l","v">>, <<".","w","e","b","m">>,
      <<".","m","4","v">>, <<".","m","p","g">>, <<".","m","p","e","g">>,
      <<".","3","g","p">>, <<".","3","g","2">>, <<".","m","x","f">>, <<".","t","s">> }

\* VideoEncoder.is_supported_format
is_supported_format(path) == path.suffix \in SUPPORTED_FORMATS

\* output containers: the two codec branches and one container of the generic one
F_mp4 == <<"m","p","4">>
F_webm == <<"w","e","b","m">>
F_avi == <<"a","v","i">>
F_mkv == <<"m","k","v">>
F_mov == <<"m","o","v">>
OutputFormats == {F_mp4, F_webm, F_avi}

\* what ffmpeg.probe can give get_video_info for a file: {} when the probe
\* fails, else the stream's data (duration in seconds, frame rate)
FileVideo(path) == IF path = P_ax THEN VI_Full(120, 30) ELSE VI_Full(600, 90)
ProbeResults(path, there) == IF there THEN {VI_Empty, FileVideo(path)} ELSE {VI_Empty}

\* _get_optimal_fps without the cap at 60
get_optimal_fps_NoCap(info) ==
    LET original_fps == IF "fps" \in info.keys THEN info.fps ELSE 0
    IN IF 20 <= original_fps THEN original_fps ELSE 30

\* VideoEncoder._get_optimal_fps on the probed info
get_optimal_fps(info) ==
    LET original_fps == IF "fps" \in info.keys THEN info.fps ELSE 0
    IN IF 20 <= original_fps /\ original_fps <= 60 THEN original_fps
       ELSE IF original_fps > 60 THEN 60
       ELSE 30

\* the scale filter both encodes apply
ScaleFilter(settings) ==
    IF settings.has_resolution
    THEN <<"scale", IntToStr(settings.width), IntToStr(settings.height)>>
    ELSE <<"scale", "trunc(iw/2)*2", "trunc(ih/2)*2">>

\* int(x) of a quotient n/d, d > 0: truncation toward zero
TruncDiv(n, d) == IF n >= 0 THEN n \div d ELSE -((-n) \div d)

\* the bitrate without the 5% left for the container
VideoBitrate_NoOverhead(target_size_mb, duration) ==
    TruncDiv(target_size_mb * 8 * 1024 * 1024 - 128 * 1024 * duration, duration)

\* video_bitrate = int((target_size_mb*8*1024*1024*0.95 / duration) - 128*1024),
\* with 8*1024*1024*0.95 = 79691776/10 and both terms over 10*duration
VideoBitrate(target_size_mb, duration) ==
    TruncDiv(target_size_mb * 79691776 - 128 * 1024 * 10 * duration, 10 * duration)

\* an invocation without the overwrite flag
global_args_none == FALSE

\* .global_args('-y') on the stream that is run (lines 211, 315, 370)
global_args_y == TRUE

\* os.path.join(temp_dir, "ffmpeg2pass")
PassLogFile(temp_dir) == <<temp_dir, "ffmpeg2pass">>

\* a generic branch that leaves the bitrate out of the first pass
FirstPassArgs_GenericNoBitrate(output_format, video_bitrate, pass_log_file, scale, fps) ==
    [pass |-> 1,
     b |-> IF output_format \in {F_mp4, <<"m","k","v">>, <<"m","o","v">>, F_webm}
           THEN video_bitrate ELSE 0,
     passlogfile |-> pass_log_file, f |-> "null", audio |-> FALSE, to_devnull |-> TRUE,
     scale |-> scale, fps |-> fps, overwrite |-> global_args_y, acodec |-> "",
     audio_bitrate |-> "",
     vcodec |-> IF output_format \in {F_mp4, <<"m","k","v">>, <<"m","o","v">>}
                THEN "libx264"
                ELSE IF output_format = F_webm THEN "libvpx-vp9" ELSE "",
     kwargs |-> IF output_format \in {F_mp4, <<"m","k","v">>, <<"m","o","v">>, F_webm}
                THEN {"vcodec", "b", "pass", "f", "passlogfile"}
                ELSE {"pass", "f", "passlogfile"}]

\* the first_pass output node of _encode_with_target_size, per container branch
FirstPassArgs(output_format, video_bitrate, pass_log_file, scale, fps) ==
    LET common == [pass |-> 1, b |-> video_bitrate, passlogfile |-> pass_log_file,
                   f |-> "null", audio |-> FALSE, to_devnull |-> TRUE,
                   scale |-> scale, fps |-> fps, overwrite |-> global_args_y,
                   acodec |-> "", audio_bitrate |-> ""]
    IN IF output_format \in {F_mp4, <<"m","k","v">>, <<"m","o","v">>}
       THEN common @@ [vcodec |-> "libx264",
                       kwargs |-> {"vcodec", "b", "pass", "f", "passlogfile"}]
       ELSE IF output_format = F_webm
       THEN common @@ [vcodec |-> "libvpx-vp9",
                       kwargs |-> {"vcodec", "b", "pass", "f", "passlogfile"}]
       ELSE common @@ [vcodec |-> "", kwargs |-> {"b", "pass", "f", "passlogfile"}]

\* a second pass that encodes every container with the codecs of mp4
SecondPassArgs_AlwaysH264(output_format, video_bitrate, pass_log_file, scale, fps) ==
    [pass |-> 2, b |-> video_bitrate, passlogfile |-> pass_log_file,
     f |-> "", audio |-> TRUE, to_devnull |-> FALSE,
     scale |-> scale, fps |-> fps, overwrite |-> global_args_y,
     vcodec |-> "libx264", acodec |-> "aac", audio_bitrate |-> "128k",
     kwargs |-> {"vcodec", "b", "pass", "acodec", "audio_bitrate", "passlogfile"}]

\* the second_pass output node of _encode_with_target_size, per container branch
SecondPassArgs(output_format, video_bitrate, pass_log_file, scale, fps) ==
    LET common == [pass |-> 2, b |-> video_bitrate, passlogfile |-> pass_log_file,
                   f |-> "", audio |-> TRUE, to_devnull |-> FALSE,
                   scale |-> scale, fps |-> fps, overwrite |-> global_args_y]
    IN IF output_format \in {F_mp4, <<"m","k","v">>, <<"m","o","v">>}
       THEN common @@ [vcodec |-> "libx264", acodec |-> "aac", audio_bitrate |-> "128k",
                       kwargs |-> {"vcodec", "b", "pass", "acodec", "audio_bitrate",
                                   "passlogfile"}]
       ELSE IF output_format = F_webm
       THEN common @@ [vcodec |-> "libvpx-vp9", acodec |-> "libopus",
                       audio_bitrate |-> "128k",
                       kwargs |-> {"vcodec", "b", "pass", "acodec", "audio_bitrate",
                                   "passlogfile"}]
       ELSE common @@ [vcodec |-> "", acodec |-> "", audio_bitrate |-> "",
                       kwargs |-> {"b", "pass", "passlogfile"}]

\* no backend invocation made (yet)
NoArgs == [pass |-> 0, b |-> 0, passlogfile |-> <<0, "">>, f |-> "", audio |-> FALSE,
           to_devnull |-> FALSE, scale |-> <<>>, fps |-> 0, overwrite |-> FALSE,
           vcodec |-> "", acodec |-> "", audio_bitrate |-> "", kwargs |-> {}]


(***************************************************************************)
(* State.                                                                  *)
(***************************************************************************)
VARIABLES
    ffmpeg_module,  \* whether `import ffmpeg` succeeded (encoder.py 17-20)
    fm_counter,     \* FileManager.counter of the shared FileManager
    fm_calls,       \* calls of apply_prefix_template made on it
    fm_fallbacks,   \* those of them that took the except branch
    fm_last,        \* what the last call returned
    jobs,           \* the calls of convert_video in flight, per caller
    tmp_dirs,       \* the scratch directories that exist
    out_files,      \* the files in the output directory
    batch,          \* the call of batch_convert: its arguments, loop and results
    window,         \* MainWindow: file list rows, current_index, buttons, encoder_thread
    threads,        \* the EncoderThread objects made so far
    signals,        \* encoding_finished signals queued for the main thread
    cancel_at,      \* current_index when Stop first reached a thread in this run, or -1
    run_done,       \* the rows whose result was recorded since the run was started
    pm,             \* PrefixManager: custom_templates, and its last validate_template call
    fps_call,       \* the last call of _get_optimal_fps: the probe and the rate returned
    gop,            \* the last call of generate_output_path: the directory's files
                    \* when it was made, and the path returned
    user_settings   \* Settings: the class's DEFAULT_SETTINGS objects, the instance's
                    \* dictionary and the settings file

vars == <<ffmpeg_module, fm_counter, fm_calls, fm_fallbacks, fm_last,
          jobs, tmp_dirs, out_files, batch, window, threads, signals, cancel_at,
          run_done, pm, fps_call, gop, user_settings>>

fm_vars == <<fm_counter, fm_calls, fm_fallbacks, fm_last>>
job_vars == <<jobs, tmp_dirs, out_files>>
ui_vars == <<window, threads, signals, cancel_at, run_done>>
helper_vars == <<pm, fps_call, gop, user_settings>>

\* the callers that can have a convert_video call in flight at the same time
Slots == {"A", "B"}

\* names tempfile can give a scratch directory
TmpNames == 1..MaxTmp

NoResult == [success |-> FALSE, message |-> "", raised |-> FALSE]
Returned(success, message) == [success |-> success, message |-> message, raised |-> FALSE]
Raised(message) == [success |-> FALSE, message |-> message, raised |-> TRUE]

IdleJob == [pc |-> "idle", input |-> P_ax, output |-> <<>>, quality |-> Q_medium,
            target_size |-> 0, output_format |-> F_mp4, planned |-> FALSE,
            duration |-> 0,
            video_bitrate |-> 0, temp_dir |-> 0, pass1 |-> "", pass2 |-> "",
            first_pass |-> NoArgs, second_pass |-> NoArgs, single |-> NoArgs,
            wrote |-> FALSE, result |-> NoResult]

\* a call convert_video(input_path, output_path, quality, target_size, output_format)
NewJob(input, output, quality, target_size, output_format) ==
    [IdleJob EXCEPT !.pc = "call", !.input = input, !.output = output,
                    !.quality = quality, !.target_size = target_size,
                    !.output_format = output_format]

\* batch_convert before it is called
NoBatch == [pc |-> "idle", inputs |-> <<>>, i |-> 1, template |-> <<>>,
            quality |-> Q_medium, target_size |-> 0, output_format |-> F_mp4,
            results |-> <<>>, resolved |-> <<>>]

NoLast == [filename |-> <<>>, counter |-> 0, raised |-> FALSE, fallback |-> FALSE,
           counter_value |-> 0, template |-> <<>>, path |-> P_ax, file_exists |-> FALSE,
           video_info |-> VI_Empty, quality |-> <<>>]

\* the encoder threads, in the order they are made
Threads == 1..MaxThreads

\* what a thread hands to encoding_finished
Report(success, message) == [sent |-> TRUE, success |-> success, message |-> message]
NoReport == [sent |-> FALSE, success |-> FALSE, message |-> ""]

\* an EncoderThread that has not been made yet
NoThread == [pc |-> "unborn", i |-> 0, cancelled |-> FALSE, index |-> 0, input |-> P_ax,
             cancel_at_start |-> -1, polls |-> 0, progress |-> 0,
             flag_at_poll |-> FALSE, flag_at_call |-> FALSE, invoked |-> FALSE,
             backend |-> NoResult, report |-> NoReport]

\* EncoderThread.__init__ followed by start()
NewThread(index, input, cancel_req) ==
    [NoThread EXCEPT !.pc = "begin", !.index = index, !.input = input,
                     !.cancel_at_start = cancel_req]

\* PrefixManager.__init__: no custom templates; no validate_template call yet
NewPrefixManager ==
    [custom_templates |-> {}, calls |-> 0, template |-> <<>>, valid |-> FALSE]

\* a frame rate string of ffprobe: "num/den", or "num" without a slash, or
\* text int() and float() reject
FrameRate(is_number, has_slash, num, den) ==
    [is_number |-> is_number, has_slash |-> has_slash, num |-> num, den |-> den]

\* no call of generate_output_path yet
NoOutputPath == [called |-> FALSE, existing |-> {}, filename |-> <<>>,
                 output_format |-> <<>>, output_path |-> <<>>]

\* no call of _get_optimal_fps yet
NoFpsCall == [called |-> FALSE, probe_ok |-> FALSE,
              frame_rate |-> FrameRate(FALSE, FALSE, 0, 0), fps |-> 0]

(***************************************************************************)
(* Settings.  DEFAULT_SETTINGS is one dictionary object of the class; its  *)
(* 'shortcuts' value is one dict object and its 'recent_files' value one   *)
(* list object.  dict.copy() is shallow: the copy holds the same two       *)
(* objects.  An entry of the instance's dictionary is therefore either the *)
(* class's object ("default") or an object of its own ("own").             *)
(***************************************************************************)

\* DEFAULT_SETTINGS['shortcuts'] as written in the source
DefaultShortcuts ==
    [a \in {"open_file", "save_file", "start_conversion", "stop_conversion",
            "settings", "exit"} |->
        CASE a = "open_file" -> "Ctrl+O"
          [] a = "save_file" -> "Ctrl+S"
          [] a = "start_conversion" -> "Ctrl+R"
          [] a = "stop_conversion" -> "Ctrl+X"
          [] a = "settings" -> "Ctrl+P"
          [] a = "exit" -> "Alt+F4"]

\* DEFAULT_SETTINGS['max_recent_files'] and DEFAULT_SETTINGS['theme']
DefaultMaxRecentFiles == 10
DefaultTheme == "system"

\* DEFAULT_SETTINGS['recent_files'] as written in the source
DefaultRecentFiles == <<>>

\* Settings.__init__ on a first launch: the copy of DEFAULT_SETTINGS, and no
\* settings file for load_settings to read
NewSettings ==
    [DEFAULT_shortcuts |-> DefaultShortcuts,
     DEFAULT_recent_files |-> DefaultRecentFiles,
     theme |-> DefaultTheme,
     max_recent_files |-> DefaultMaxRecentFiles,
     shortcuts_is |-> "default", shortcuts_own |-> DefaultShortcuts,
     recent_files_is |-> "default", recent_files_own |-> DefaultRecentFiles,
     file |-> "none", last |-> "init", result |-> TRUE]

\* self.settings['shortcuts'] and self.settings['recent_files']
Shortcuts(st) ==
    IF st.shortcuts_is = "default" THEN st.DEFAULT_shortcuts ELSE st.shortcuts_own
RecentFiles(st) ==
    IF st.recent_files_is = "default" THEN st.DEFAULT_recent_files ELSE st.recent_files_own

\* what get() returns for the keys of the model
Visible(st) ==
    [theme |-> st.theme, max_recent_files |-> st.max_recent_files,
     shortcuts |-> Shortcuts(st), recent_files |-> RecentFiles(st)]

\* list.remove(x): the list without its first x
RECURSIVE ListRemove(_, _)
ListRemove(list, x) ==
    IF list = <<>> THEN <<>>
    ELSE IF Head(list) = x THEN Tail(list)
    ELSE <<Head(list)>> \o ListRemove(Tail(list), x)

\* list[:n] for n >= 0
Slice(list, n) == SubSeq(list, 1, IF n < Len(list) THEN n ELSE Len(list))

\* the values the settings dialog and the menus give set()
Themes == {"system", "dark"}
MaxRecentChoices == {1, DefaultMaxRecentFiles}
SettableShortcuts == {"F5"}
ShortcutActions == {"open_file", "custom"}
RecentPaths == {"/a/x.mp4", "/b/x.mp4"}

\* Settings.set for 'theme'
SetTheme(theme) ==
    /\ user_settings' = [user_settings EXCEPT !.theme = theme, !.last = "set", !.result = TRUE]
    /\ UNCHANGED <<ffmpeg_module, fm_vars, job_vars, batch, ui_vars, pm, fps_call, gop>>

\* Settings.set for 'max_recent_files'
SetMaxRecentFiles(n) ==
    /\ user_settings' = [user_settings EXCEPT !.max_recent_files = n, !.last = "set", !.result = TRUE]
    /\ UNCHANGED <<ffmpeg_module, fm_vars, job_vars, batch, ui_vars, pm, fps_call, gop>>

\* Settings.set for 'shortcuts': the caller's dict becomes the entry
SetShortcuts(shortcuts) ==
    /\ user_settings' = [user_settings EXCEPT !.shortcuts_is = "own", !.shortcuts_own = shortcuts,
                                    !.last = "set", !.result = TRUE]
    /\ UNCHANGED <<ffmpeg_module, fm_vars, job_vars, batch, ui_vars, pm, fps_call, gop>>

\* shortcuts[action] = shortcut on a dict
DictSet(dict, action, shortcut) ==
    [a \in DOMAIN dict \cup {action} |-> IF a = action THEN shortcut ELSE dict[a]]

\* set_shortcut: the dict that get() returned is changed in place and stored
\* back, so the object it is stays the same
SetShortcutInPlace(st, action, shortcut) ==
    IF st.shortcuts_is = "default"
    THEN [st EXCEPT !.DEFAULT_shortcuts = DictSet(@, action, shortcut)]
    ELSE [st EXCEPT !.shortcuts_own = DictSet(@, action, shortcut)]

\* Settings.set_shortcut
SetShortcut(action, shortcut) ==
    /\ user_settings' = [SetShortcutInPlace(user_settings, action, shortcut)
                        EXCEPT !.last = "set_shortcut", !.result = TRUE]
    /\ UNCHANGED <<ffmpeg_module, fm_vars, job_vars, batch, ui_vars, pm, fps_call, gop>>

\* Settings.add_recent_file: remove and insert change the list get() returned
\* in place; the slice stored back is a new list
AddRecentFile(file_path) ==
    /\ LET recent_files == <<file_path>> \o ListRemove(RecentFiles(user_settings), file_path)
       IN user_settings' =
            [user_settings EXCEPT
                !.DEFAULT_recent_files =
                    IF user_settings.recent_files_is = "default" THEN recent_files ELSE @,
                !.recent_files_is = "own",
                !.recent_files_own = Slice(recent_files, user_settings.max_recent_files),
                !.last = "add_recent_file", !.result = TRUE]
    /\ UNCHANGED <<ffmpeg_module, fm_vars, job_vars, batch, ui_vars, pm, fps_call, gop>>

\* Settings.clear_recent_files
ClearRecentFiles ==
    /\ user_settings' = [user_settings EXCEPT !.recent_files_is = "own", !.recent_files_own = <<>>,
                                    !.last = "clear_recent_files", !.result = TRUE]
    /\ UNCHANGED <<ffmpeg_module, fm_vars, job_vars, batch, ui_vars, pm, fps_call, gop>>

\* Settings.reset: DEFAULT_SETTINGS.copy(), then save_settings, whose open()
\* or json.dump succeeds or fails
Reset ==
    /\ \E saved \in BOOLEAN :
        user_settings' = [user_settings EXCEPT
                        !.theme = DefaultTheme,
                        !.max_recent_files = DefaultMaxRecentFiles,
                        !.shortcuts_is = "default",
                        !.recent_files_is = "default",
                        !.file = IF saved THEN "saved" ELSE @,
                        !.last = "reset", !.result = saved]
    /\ UNCHANGED <<ffmpeg_module, fm_vars, job_vars, batch, ui_vars, pm, fps_call, gop>>

NextSettings ==
    \/ \E theme \in Themes : SetTheme(theme)
    \/ \E n \in MaxRecentChoices : SetMaxRecentFiles(n)
    \/ \E a \in ShortcutActions, k \in SettableShortcuts :
          SetShortcuts(DictSet(DefaultShortcuts, a, k))
    \/ \E a \in ShortcutActions, k \in SettableShortcuts : SetShortcut(a, k)
    \/ \E file_path \in RecentPaths : AddRecentFile(file_path)
    \/ ClearRecentFiles
    \/ Reset

\* MainWindow after construction
NewWindow == [file_list |-> <<>>, status |-> <<>>, current_index |-> 0, start_button |-> TRUE,
              stop_button |-> FALSE, encoder_thread |-> 0]

Init ==
    /\ ffmpeg_module \in BOOLEAN
    /\ fm_counter = FileManager_init
    /\ fm_calls = 0
    /\ fm_fallbacks = 0
    /\ fm_last = NoLast
    /\ jobs = [j \in Slots |-> IdleJob]
    /\ tmp_dirs = {}
    /\ out_files = {}
    /\ batch = NoBatch
    /\ window = NewWindow
    /\ threads = [t \in Threads |-> NoThread]
    /\ signals = <<>>
    /\ cancel_at = -1
    /\ run_done = {}
    /\ pm = NewPrefixManager
    /\ fps_call = NoFpsCall
    /\ gop = NoOutputPath
    /\ user_settings = NewSettings

(***************************************************************************)
(* Calls of apply_prefix_template on the shared FileManager.               *)
(***************************************************************************)
ApplyPrefixTemplate(template, path, video_info, quality) ==
    /\ fm_calls < MaxCalls
    /\ LET r == apply_prefix_template(fm_counter, template, path,
                                      path \in ExistingFiles, video_info, quality)
       IN /\ fm_counter' = r.counter
          /\ fm_last' = LastCall(r, template, path, path \in ExistingFiles,
                                 video_info, quality)
          /\ fm_fallbacks' = fm_fallbacks + (IF r.fallback THEN 1 ELSE 0)
    /\ fm_calls' = fm_calls + 1
    /\ UNCHANGED <<ffmpeg_module, helper_vars, ui_vars, job_vars, batch>>

NextFM ==
    \E template \in Templates, path \in Paths, video_info \in VideoInfos,
       quality \in Qualities :
        ApplyPrefixTemplate(template, path, video_info, quality)

SpecFM == Init /\ [][NextFM]_vars

\* a call with any template, file name and quality label a caller can hand over
ResolveName(template, path, video_info, quality) ==
    /\ fm_calls < MaxResolves
    /\ ApplyPrefixTemplate(template, path, video_info, quality)

NextResolve ==
    \E template \in {T_filename, T_counter, T_source_filename} \cup OddTemplates,
       path \in {P_ax} \cup OddPaths,
       video_info \in VideoInfos, quality \in {Q_720p} \cup OddQualities :
        ResolveName(template, path, video_info, quality)

SpecResolve == Init /\ [][NextResolve]_vars


(***************************************************************************)
(* convert_video and _encode_with_target_size, one call per slot.          *)
(***************************************************************************)
\* what a run of the backend can end in: it succeeds, it fails (ffmpeg.Error),
\* or it cannot be launched (an OSError out of subprocess)
BackendOutcomes == {"ok", "ffmpeg_error", "os_error"}

\* a scratch directory made with mkdtemp and never removed
CleanupTempDir_Leaks(dirs, temp_dir) == dirs

\* leaving the `with tempfile.TemporaryDirectory()` block
CleanupTempDir(dirs, temp_dir) == dirs \ {temp_dir}

\* tempfile.TemporaryDirectory(): the names a new scratch directory can get
NewTempDirs(dirs) == TmpNames \ dirs

\* a first pass whose failure is logged and not returned
AfterFirstPass_FallsThrough(outcome) == "pass2"

\* where _encode_with_target_size goes after the first pass ran
AfterFirstPass(outcome) == IF outcome = "ok" THEN "pass2" ELSE "returned"

\* the result _encode_with_target_size returns for a first pass that did not succeed
FirstPassFailure(outcome) ==
    IF outcome = "ffmpeg_error" THEN Returned(FALSE, "First pass encoding error")
    ELSE Returned(FALSE, "Error")

\* the result _encode_with_target_size returns after the second pass ran
SecondPassResult(outcome) ==
    IF outcome = "ok" THEN Returned(TRUE, "Successfully converted video with target size")
    ELSE IF outcome = "ffmpeg_error" THEN Returned(FALSE, "Second pass encoding error")
    ELSE Returned(FALSE, "Error")

\* the stream convert_video builds when no target size is given, per container
\* branch; kwargs are the keyword arguments ffmpeg.output is given, and an
\* argument or filter that is not given is 0, "" or <<>>
SinglePassArgs(output_format, settings, fps) ==
    LET common == [pass |-> 0, b |-> 0, passlogfile |-> <<0, "">>, f |-> "",
                   audio |-> TRUE, to_devnull |-> FALSE, fps |-> fps, overwrite |-> global_args_y]
    IN IF output_format \in {F_mp4, <<"m","k","v">>, <<"m","o","v">>}
       THEN common @@ [vcodec |-> "libx264", acodec |-> "aac", audio_bitrate |-> "128k",
                       scale |-> ScaleFilter(settings), crf |-> settings.crf,
                       preset |-> settings.preset,
                       kwargs |-> {"vcodec", "crf", "preset", "acodec", "audio_bitrate"}]
       ELSE IF output_format = F_webm
       THEN common @@ [vcodec |-> "libvpx-vp9", acodec |-> "libopus",
                       audio_bitrate |-> "128k", scale |-> ScaleFilter(settings),
                       crf |-> settings.crf, preset |-> settings.preset,
                       kwargs |-> {"vcodec", "crf", "preset", "acodec", "audio_bitrate"}]
       ELSE [common EXCEPT !.fps = 0] @@
            [vcodec |-> "", acodec |-> "", audio_bitrate |-> "", scale |-> <<>>,
             crf |-> 0, preset |-> settings.preset, kwargs |-> {"preset"}]

\* a branch that takes a target of 1 MB for none
TargetGiven_AboveOne(target_size) == target_size > 1

\* convert_video, line 163: `if target_size:` (0 stands for None)
TargetGiven(target_size) == target_size # 0

\* convert_video up to the branch on target_size (lines 140-165)
ConvertVideoEnter(j) ==
    /\ jobs[j].pc = "call"
    /\ LET job == jobs[j]
       IN jobs' = [jobs EXCEPT ![j] =
            IF job.input \notin ExistingFiles
            THEN [job EXCEPT !.pc = "returned",
                             !.result = Returned(FALSE, "Input file does not exist")]
            ELSE IF ~is_supported_format(job.input)
            THEN [job EXCEPT !.pc = "returned",
                             !.result = Returned(FALSE, "Unsupported input format")]
            ELSE IF ~ffmpeg_module
            THEN \* ffmpeg.input raises NameError, and so does evaluating
                 \* `except ffmpeg.Error`: the NameError leaves convert_video
                 [job EXCEPT !.pc = "returned", !.result = Raised("NameError")]
            ELSE IF TargetGiven(job.target_size)
            THEN [job EXCEPT !.pc = "two_pass"]
            ELSE [job EXCEPT !.pc = "single"]]
    /\ UNCHANGED <<ffmpeg_module, helper_vars, ui_vars, fm_vars, batch, tmp_dirs, out_files>>

\* convert_video: the standard quality-based encoding (lines 166-222)
ConvertVideoSingle(j) ==
    /\ jobs[j].pc = "single"
    /\ \E info \in ProbeResults(jobs[j].input, TRUE), outcome \in BackendOutcomes :
        LET job == jobs[j]
            args == SinglePassArgs(job.output_format, quality_settings(job.quality),
                                   get_optimal_fps(info))
        IN /\ jobs' = [jobs EXCEPT ![j] =
                [job EXCEPT !.pc = "returned", !.single = args,
                            !.wrote = (outcome = "ok"),
                            !.result =
                                IF outcome = "ok"
                                THEN Returned(TRUE, "Successfully converted video")
                                ELSE IF outcome = "ffmpeg_error"
                                THEN Returned(FALSE, "FFmpeg error")
                                ELSE Returned(FALSE, "Error")]]
           /\ out_files' = IF outcome = "ok" THEN out_files \cup {job.output}
                           ELSE out_files
    /\ UNCHANGED <<ffmpeg_module, helper_vars, ui_vars, fm_vars, batch, tmp_dirs>>

\* a duration check that lets a duration of 0 through
InvalidDuration_NegativeOnly(duration) == duration < 0

\* _encode_with_target_size, line 252: `if duration <= 0`
InvalidDuration(duration) == duration <= 0

\* a plan that hands on whatever bitrate it computed
PlanTwoPass_NoBitrateCheck(target_size_mb, duration) ==
    IF InvalidDuration(duration)
    THEN [ok |-> FALSE, message |-> "Could not determine video duration", video_bitrate |-> 0]
    ELSE IF duration = 0
    THEN [ok |-> FALSE, message |-> "Error: float division by zero", video_bitrate |-> 0]
    ELSE [ok |-> TRUE, message |-> "", video_bitrate |-> VideoBitrate(target_size_mb, duration)]

\* _encode_with_target_size, lines 248-262: the two checks and the bitrate; a
\* division by a duration of 0 would raise ZeroDivisionError, which the outer
\* except (lines 378-380) returns as a failed result
PlanTwoPass(target_size_mb, duration) ==
    IF InvalidDuration(duration)
    THEN [ok |-> FALSE, message |-> "Could not determine video duration", video_bitrate |-> 0]
    ELSE IF duration = 0
    THEN [ok |-> FALSE, message |-> "Error: float division by zero", video_bitrate |-> 0]
    ELSE LET video_bitrate == VideoBitrate(target_size_mb, duration)
         IN IF video_bitrate <= 0
            THEN [ok |-> FALSE, message |-> "Target size too small for this video duration",
                  video_bitrate |-> video_bitrate]
            ELSE [ok |-> TRUE, message |-> "", video_bitrate |-> video_bitrate]

\* _encode_with_target_size up to the creation of the scratch directory
\* (lines 244-266)
TwoPassPlan(j) ==
    /\ jobs[j].pc = "two_pass"
    /\ \E info \in ProbeResults(jobs[j].input, TRUE) :
        LET job == jobs[j]
            duration == IF "duration" \in info.keys THEN info.duration ELSE 0
            plan == PlanTwoPass(job.target_size, duration)
        IN IF ~plan.ok
           THEN /\ jobs' = [jobs EXCEPT ![j] =
                    [job EXCEPT !.pc = "returned", !.planned = TRUE,
                                !.duration = duration,
                                !.video_bitrate = plan.video_bitrate,
                                !.result = Returned(FALSE, plan.message)]]
                /\ UNCHANGED tmp_dirs
           ELSE \E temp_dir \in NewTempDirs(tmp_dirs) :
                /\ jobs' = [jobs EXCEPT ![j] =
                    [job EXCEPT !.pc = "pass1", !.planned = TRUE,
                                !.duration = duration,
                                !.video_bitrate = plan.video_bitrate,
                                !.temp_dir = temp_dir]]
                /\ tmp_dirs' = tmp_dirs \cup {temp_dir}
    /\ UNCHANGED <<ffmpeg_module, helper_vars, ui_vars, fm_vars, batch, out_files>>

\* _encode_with_target_size: the first pass (lines 268-320)
TwoPassFirst(j) ==
    /\ jobs[j].pc = "pass1"
    /\ \E info \in ProbeResults(jobs[j].input, TRUE), outcome \in BackendOutcomes :
        LET job == jobs[j]
            args == FirstPassArgs(job.output_format, job.video_bitrate,
                                  PassLogFile(job.temp_dir),
                                  ScaleFilter(quality_settings(job.quality)),
                                  get_optimal_fps(info))
            next == AfterFirstPass(outcome)
        IN /\ jobs' = [jobs EXCEPT ![j] =
                [job EXCEPT !.pc = next, !.first_pass = args, !.pass1 = outcome,
                            !.result = IF next = "returned"
                                       THEN FirstPassFailure(outcome) ELSE @]]
           /\ tmp_dirs' = IF next = "returned"
                          THEN CleanupTempDir(tmp_dirs, job.temp_dir) ELSE tmp_dirs
    /\ UNCHANGED <<ffmpeg_module, helper_vars, ui_vars, fm_vars, batch, out_files>>

\* _encode_with_target_size: the second pass (lines 322-380)
TwoPassSecond(j) ==
    /\ jobs[j].pc = "pass2"
    /\ \E info \in ProbeResults(jobs[j].input, TRUE), outcome \in BackendOutcomes :
        LET job == jobs[j]
            args == SecondPassArgs(job.output_format, job.video_bitrate,
                                   PassLogFile(job.temp_dir),
                                   ScaleFilter(quality_settings(job.quality)),
                                   get_optimal_fps(info))
        IN /\ jobs' = [jobs EXCEPT ![j] =
                [job EXCEPT !.pc = "returned", !.second_pass = args,
                            !.pass2 = outcome, !.wrote = (outcome = "ok"),
                            !.result = SecondPassResult(outcome)]]
           /\ out_files' = IF outcome = "ok" THEN out_files \cup {job.output}
                           ELSE out_files
           /\ tmp_dirs' = CleanupTempDir(tmp_dirs, job.temp_dir)
    /\ UNCHANGED <<ffmpeg_module, helper_vars, ui_vars, fm_vars, batch>>

\* the steps of a call in flight
JobStep(j) ==
    \/ ConvertVideoEnter(j)
    \/ ConvertVideoSingle(j)
    \/ TwoPassPlan(j)
    \/ TwoPassFirst(j)
    \/ TwoPassSecond(j)

\* os.path.join(output_dir, f"{filename}.{output_format}"), as the name in output_dir
OutputName(filename, output_format) == filename \o <<".">> \o output_format

\* the encoding settings a caller passes: quality, target size in MB (0 stands
\* for None) and output format; every container branch with and without a
\* target size, and a target too small for either file
EncodeSettings ==
    { <<Q_medium, 0, F_mp4>>, <<Q_720p, 0, F_webm>>, <<Q_medium, 0, F_avi>>,
      <<Q_medium, 10, F_mp4>>, <<Q_720p, 10, F_webm>>, <<Q_medium, 10, F_avi>>,
      <<Q_medium, 1, F_mp4>>,
      <<Q_720p, 0, F_mkv>>, <<Q_medium, 0, F_mov>>,
      <<Q_medium, 10, F_mkv>>, <<Q_720p, 10, F_mov>> }

\* a caller calls encoder.convert_video
CallConvertVideo(j, input, quality, target_size, output_format) ==
    /\ jobs[j].pc \in {"idle", "returned"}
    /\ jobs' = [jobs EXCEPT ![j] =
            NewJob(input, OutputName(get_safe_filename(input.stem), output_format),
                   quality, target_size, output_format)]
    /\ UNCHANGED <<ffmpeg_module, helper_vars, ui_vars, fm_vars, batch, tmp_dirs, out_files>>

\* one caller at a time (batch_convert, or one encoder thread)
NextEncoder ==
    \/ \E input \in Paths, s \in EncodeSettings :
            CallConvertVideo("A", input, s[1], s[2], s[3])
    \/ JobStep("A")

SpecEncoder == Init /\ [][NextEncoder]_vars

\* the calls two encoder threads running at the same time make
ConcurrentSettings ==
    { <<Q_medium, 0, F_mp4>>, <<Q_medium, 10, F_mp4>>, <<Q_720p, 10, F_webm>> }

NextConcurrent ==
    \/ \E j \in Slots, input \in Paths, s \in ConcurrentSettings :
            CallConvertVideo(j, input, s[1], s[2], s[3])
    \/ \E j \in Slots : JobStep(j)

SpecConcurrent == Init /\ [][NextConcurrent]_vars


(***************************************************************************)
(* Claims about the shared counter.                                        *)
(***************************************************************************)
\* C1 (as claimed): after N calls of apply_prefix_template on one FileManager
\* the counter is its initial value plus N, fallback calls included.
C1_CounterCountsEveryCall == fm_counter = FileManager_init + fm_calls

(***************************************************************************)
(* Claims about the two-pass encode.                                       *)
(***************************************************************************)
\* C5: the second pass is run only after a first pass that succeeded; a first
\* pass the backend failed ends the job with the first-pass error, no second
\* pass and no output written, and a second pass the backend failed ends it
\* with the second-pass error.
C5_SecondPassOnlyAfterFirst ==
    \A j \in Slots :
        LET job == jobs[j]
        IN /\ (job.pc = "pass2" \/ job.second_pass.pass = 2) => job.pass1 = "ok"
           /\ job.pass1 \in {"ffmpeg_error", "os_error"} =>
                /\ job.pc = "returned"
                /\ job.second_pass = NoArgs
                /\ job.pass2 = ""
                /\ ~job.wrote
                /\ ~job.result.success
           /\ job.pass1 = "ffmpeg_error" =>
                job.result = Returned(FALSE, "First pass encoding error")
           /\ job.pass2 = "ffmpeg_error" =>
                job.result = Returned(FALSE, "Second pass encoding error")

\* C5 witness: a job whose first pass failed in the backend has returned.
C5_Witness ==
    /\ jobs["A"].pc = "returned"
    /\ jobs["A"].pass1 = "ffmpeg_error"
    /\ jobs["A"].first_pass.pass = 1

\* C6: in every two-pass encode, whatever the container, both passes are
\* invoked with the planned bitrate and with the same pass-log path.
C6_SameBitrateAndLog ==
    \A j \in Slots :
        LET job == jobs[j]
        IN /\ job.first_pass.pass = 1 =>
                /\ job.first_pass.b = job.video_bitrate
                /\ job.first_pass.passlogfile = PassLogFile(job.temp_dir)
           /\ job.second_pass.pass = 2 =>
                /\ job.first_pass.pass = 1
                /\ job.second_pass.b = job.first_pass.b
                /\ job.second_pass.passlogfile = job.first_pass.passlogfile

\* C6 witness: both passes of an encode to a container of the generic branch ran.
C6_Witness ==
    /\ jobs["A"].output_format = F_avi
    /\ jobs["A"].second_pass.pass = 2
    /\ jobs["A"].video_bitrate > 0

\* a job that is inside the `with tempfile.TemporaryDirectory()` block
InScratch(j) == jobs[j].pc \in {"pass1", "pass2"}

\* C7: the scratch directory of a two-pass job exists while the job is in its
\* two passes, is the directory of no other job in flight, and every scratch
\* directory that exists is that of a job still in its two passes: none is
\* left once its job has returned, however it returned.
C7_ScratchExclusiveAndRemoved ==
    /\ \A j \in Slots : InScratch(j) => jobs[j].temp_dir \in tmp_dirs
    /\ \A j, k \in Slots :
        (j # k /\ InScratch(j) /\ InScratch(k)) => jobs[j].temp_dir # jobs[k].temp_dir
    /\ \A d \in tmp_dirs : \E j \in Slots : InScratch(j) /\ jobs[j].temp_dir = d

\* C7 witness: one job has returned out of an exception in its first pass
\* while another is in its second pass.
C7_Witness ==
    /\ jobs["A"].pc = "returned"
    /\ jobs["A"].pass1 = "os_error"
    /\ jobs["B"].pc = "pass2"


(***************************************************************************)
(* batch_convert.  The call of convert_video it makes for a file is the    *)
(* call in slot "A".                                                       *)
(***************************************************************************)
\* the input lists: every list of at most MaxInputs paths
RECURSIVE SeqsUpTo(_, _)
SeqsUpTo(S, n) ==
    IF n = 0 THEN {<<>>}
    ELSE LET shorter == SeqsUpTo(S, n - 1)
         IN shorter \cup {Append(q, x) : q \in shorter, x \in S}

InputLists == SeqsUpTo(Paths, MaxInputs) \ {<<>>}

\* what batch_convert is called with besides the input list: the template,
\* the quality, the target size in MB (0 stands for None), the output format
BatchSettings ==
    { <<T_filename, Q_medium, 0, F_mp4>>, <<T_filename_counter, Q_medium, 0, F_mp4>>,
      <<T_filename, Q_medium, 10, F_mp4>> }

\* the counter of the FileManager batch_convert resolves a file's template
\* with: `file_manager = FileManager()` inside the loop
BatchFileManagerCounter(b) == FileManager_init

\* `break` in place of `continue`
AfterMissingInput_Breaks(b) == Len(b.inputs) + 1

\* the index the loop goes on with after an input that does not exist (`continue`)
AfterMissingInput(b) == b.i + 1

\* the result appended for an input, from what convert_video returned or raised
BatchResult(input, output, result) ==
    IF result.raised
    THEN [input |-> input, has_output |-> FALSE, output |-> <<>>,
          success |-> FALSE, message |-> "Error"]
    ELSE [input |-> input, has_output |-> TRUE,
          output |-> IF result.success THEN output ELSE <<>>,
          success |-> result.success, message |-> result.message]

\* batch_convert is called
BatchConvert(input_files, template, quality, target_size, output_format) ==
    /\ batch.pc = "idle"
    /\ batch' = [NoBatch EXCEPT !.pc = "loop", !.inputs = input_files,
                                !.template = template, !.quality = quality,
                                !.target_size = target_size,
                                !.output_format = output_format]
    /\ UNCHANGED <<ffmpeg_module, helper_vars, ui_vars, fm_vars, job_vars>>

\* one turn of the loop up to the call of convert_video (lines 401-439)
BatchNextInput ==
    /\ batch.pc = "loop"
    /\ batch.i <= Len(batch.inputs)
    /\ LET input == batch.inputs[batch.i]
       IN IF input \notin ExistingFiles
          THEN /\ batch' = [batch EXCEPT
                    !.results = Append(@, [input |-> input, has_output |-> FALSE,
                                           output |-> <<>>, success |-> FALSE,
                                           message |-> "Input file does not exist"]),
                    !.i = AfterMissingInput(batch)]
               /\ UNCHANGED jobs
          ELSE \E video_info \in ProbeResults(input, TRUE) :
                LET r == apply_prefix_template(BatchFileManagerCounter(batch),
                                               batch.template, input, TRUE,
                                               video_info, batch.quality)
                    output == OutputName(r.filename, batch.output_format)
                IN /\ batch' = [batch EXCEPT
                        !.pc = "convert",
                        !.resolved = Append(@, [index |-> batch.i,
                                                filename |-> r.filename,
                                                fallback |-> r.fallback,
                                                counter_value |-> r.counter_value,
                                                output |-> output])]
                   /\ jobs' = [jobs EXCEPT !["A"] =
                        NewJob(input, output, batch.quality, batch.target_size,
                               batch.output_format)]
    /\ UNCHANGED <<ffmpeg_module, helper_vars, ui_vars, fm_vars, tmp_dirs, out_files>>

\* convert_video came back: the result is appended (lines 441-454)
BatchAppendResult ==
    /\ batch.pc = "convert"
    /\ jobs["A"].pc = "returned"
    /\ batch' = [batch EXCEPT
            !.pc = "loop",
            !.results = Append(@, BatchResult(batch.inputs[batch.i], jobs["A"].output,
                                              jobs["A"].result)),
            !.i = @ + 1]
    /\ UNCHANGED <<ffmpeg_module, helper_vars, ui_vars, fm_vars, job_vars>>

\* the loop is over: `return results`
BatchReturn ==
    /\ batch.pc = "loop"
    /\ batch.i > Len(batch.inputs)
    /\ batch' = [batch EXCEPT !.pc = "done"]
    /\ UNCHANGED <<ffmpeg_module, helper_vars, ui_vars, fm_vars, job_vars>>

NextBatch ==
    \/ \E input_files \in InputLists, s \in BatchSettings :
            BatchConvert(input_files, s[1], s[2], s[3], s[4])
    \/ BatchNextInput
    \/ JobStep("A")
    \/ BatchAppendResult
    \/ BatchReturn

SpecBatch == Init /\ [][NextBatch]_vars


(***************************************************************************)
(* Claims about batch_convert.                                             *)
(***************************************************************************)
\* C2 (as claimed): within one call of batch_convert the value {counter}
\* stands for grows strictly from each template-resolved file to the next.
C2_CounterGrowsWithinBatch ==
    \A a, b \in 1..Len(batch.resolved) :
        (a < b /\ ~batch.resolved[a].fallback /\ ~batch.resolved[b].fallback)
            => batch.resolved[a].counter_value < batch.resolved[b].counter_value

\* C3: batch_convert gives one result per input, in input order; an input that
\* is missing and a conversion that failed or raised give a failed result; the
\* loop goes past such an input, and at its end every input has a result.
C3_OneResultPerInput ==
    /\ Len(batch.results) <= Len(batch.inputs)
    /\ \A k \in 1..Len(batch.results) :
        /\ batch.results[k].input = batch.inputs[k]
        /\ batch.inputs[k] \notin ExistingFiles => ~batch.results[k].success
    /\ batch.pc = "loop" =>
        /\ Len(batch.results) = batch.i - 1
        /\ batch.i <= Len(batch.inputs) + 1
    /\ batch.pc = "convert" =>
        /\ Len(batch.results) = batch.i - 1
        /\ batch.i <= Len(batch.inputs)
        /\ jobs["A"].input = batch.inputs[batch.i]
        /\ jobs["A"].pc # "idle"
    /\ batch.pc = "done" => Len(batch.results) = Len(batch.inputs)

\* C3 witness: three inputs, the second missing and the first failed in the
\* backend; all three have their result and the third was converted.
C3_Witness ==
    /\ batch.pc = "done"
    /\ Len(batch.inputs) = 3
    /\ batch.inputs[2] \notin ExistingFiles
    /\ ~batch.results[1].success /\ batch.results[1].message = "FFmpeg error"
    /\ ~batch.results[2].success
    /\ batch.results[3].success

\* whether the conversion of the k-th resolved file has written its output
Converted(k) ==
    /\ batch.resolved[k].index <= Len(batch.results)
    /\ batch.results[batch.resolved[k].index].success

\* C4 (as claimed): a file that resolves to the filename of a file converted
\* before it in the same batch is never given that file's output path.
C4_CollidingOutputsDiffer ==
    \A a, b \in 1..Len(batch.resolved) :
        (a < b /\ batch.resolved[a].filename = batch.resolved[b].filename /\ Converted(a))
            => batch.resolved[b].output # batch.resolved[a].output


(***************************************************************************)
(* The main window and its encoder threads.                                *)
(***************************************************************************)
\* what the encoding form is set to: template, quality, target size, format
UISettings == <<T_filename_counter, Q_medium, 0, F_mp4>>

\* what convert_video gives the thread that calls it
ConvertVideoResults ==
    IF ffmpeg_module
    THEN {Returned(TRUE, "Successfully converted video"), Returned(FALSE, "FFmpeg error")}
    ELSE {Raised("NameError")}

\* QThread.isRunning
IsRunning(thr) == thr.pc \in {"begin", "loop", "call", "backend"}

\* the threads that were started and have not reported encoding_finished
ActiveThreads == {t \in Threads : IsRunning(threads[t])}

\* the thread object the next EncoderThread(...) makes
FreeThreads == {t \in Threads : threads[t].pc = "unborn"}
NextThread == CHOOSE t \in FreeThreads : \A u \in FreeThreads : t <= u

\* the poll at the head of the loop honours the flag on its first turn only
CancelSeen_FirstPollOnly(thr) == thr.cancelled /\ thr.i = 1

\* `if self.cancelled:` at the head of the progress loop
CancelSeen(thr) == thr.cancelled

\* FileListWidget.add_file, from the add button or a drop
AddFile(path) ==
    /\ Len(window.file_list) < MaxFiles
    /\ path \in ExistingFiles
    /\ \A k \in 1..Len(window.file_list) : window.file_list[k] # path
    /\ window' = [window EXCEPT !.file_list = Append(@, path),
                                !.status = Append(@, "none")]
    /\ UNCHANGED <<ffmpeg_module, helper_vars, fm_vars, job_vars, batch, threads, signals, cancel_at, run_done>>

\* generate_output_path on the window's FileManager for the row at index,
\* then EncoderThread(...) and start()
StartThread(index, cancel_req) ==
    /\ FreeThreads # {}
    /\ LET input == window.file_list[index + 1]
       IN /\ \E video_info \in ProbeResults(input, TRUE) :
               LET r == apply_prefix_template(fm_counter, UISettings[1], input, TRUE,
                                              video_info, UISettings[2])
               IN /\ fm_counter' = r.counter
                  /\ fm_calls' = fm_calls + 1
                  /\ fm_fallbacks' = fm_fallbacks + (IF r.fallback THEN 1 ELSE 0)
                  /\ fm_last' = LastCall(r, UISettings[1], input, TRUE, video_info,
                                         UISettings[2])
          /\ threads' = [threads EXCEPT ![NextThread] = NewThread(index, input, cancel_req)]

\* no thread is running and no encoding_finished signal is waiting: a
\* start_encoding called now starts a run of its own
NothingInFlight == ActiveThreads = {} /\ signals = <<>>

\* MainWindow.start_encoding
StartEncoding ==
    IF Len(window.file_list) = 0
    THEN UNCHANGED vars
    ELSE /\ IF window.current_index < Len(window.file_list)
            THEN /\ StartThread(window.current_index, -1)
                 /\ window' = [window EXCEPT !.start_button = FALSE, !.stop_button = TRUE,
                                             !.encoder_thread = NextThread]
            ELSE /\ window' = [window EXCEPT !.start_button = FALSE, !.stop_button = TRUE]
                 /\ UNCHANGED <<fm_vars, threads>>
         /\ cancel_at' = -1
         /\ run_done' = IF NothingInFlight THEN {} ELSE run_done
         /\ UNCHANGED <<ffmpeg_module, helper_vars, job_vars, batch, signals>>

\* the menu actions are made enabled and nothing ever disables them
start_action_enabled == TRUE
stop_action_enabled == TRUE

\* start_button.clicked
StartButton ==
    /\ window.start_button
    /\ StartEncoding

\* the Start Encoding menu action or its shortcut
StartMenu ==
    /\ start_action_enabled
    /\ StartEncoding

\* MainWindow.stop_encoding
StopEncoding ==
    IF window.encoder_thread # 0 /\ IsRunning(threads[window.encoder_thread])
    THEN /\ threads' = [threads EXCEPT ![window.encoder_thread].cancelled = TRUE]
         /\ cancel_at' = IF cancel_at = -1 THEN window.current_index ELSE cancel_at
         /\ UNCHANGED <<ffmpeg_module, helper_vars, fm_vars, job_vars, batch, window, signals, run_done>>
    ELSE UNCHANGED vars

\* stop_button.clicked
StopButton ==
    /\ window.stop_button
    /\ StopEncoding

\* the Stop Encoding menu action or its shortcut
StopMenu ==
    /\ stop_action_enabled
    /\ StopEncoding

\* EncoderThread.run up to the loop: progress_update.emit(0, ...)
ThreadBegin(t) ==
    /\ threads[t].pc = "begin"
    /\ threads' = [threads EXCEPT ![t].pc = "loop", ![t].i = 1, ![t].progress = 0]
    /\ UNCHANGED <<ffmpeg_module, helper_vars, fm_vars, job_vars, batch, window, signals, cancel_at, run_done>>

AfterCancelEmit_NoReturn == "loop"

\* run() returns right after it emitted encoding_finished(False, "Encoding cancelled")
AfterCancelEmit == "done"

\* one turn of the progress loop: the poll, the emit and the sleep
ThreadPoll(t) ==
    /\ threads[t].pc = "loop"
    /\ LET thr == [threads[t] EXCEPT !.polls = @ + 1, !.flag_at_poll = threads[t].cancelled]
       IN IF CancelSeen(thr)
          THEN /\ threads' = [threads EXCEPT ![t] =
                    [thr EXCEPT !.pc = AfterCancelEmit,
                                !.report = Report(FALSE, "Encoding cancelled")]]
               /\ signals' = Append(signals, t)
          ELSE /\ threads' = [threads EXCEPT ![t] =
                    [thr EXCEPT !.progress = thr.i,
                                !.i = IF thr.i < ProgressSteps THEN thr.i + 1 ELSE thr.i,
                                !.pc = IF thr.i < ProgressSteps THEN "loop" ELSE "call"]]
               /\ UNCHANGED signals
    /\ UNCHANGED <<ffmpeg_module, helper_vars, fm_vars, job_vars, batch, window, cancel_at, run_done>>

\* self.encoder.convert_video(...) is called
ThreadCall(t) ==
    /\ threads[t].pc = "call"
    /\ threads' = [threads EXCEPT ![t].pc = "backend", ![t].invoked = TRUE,
                                  ![t].flag_at_call = threads[t].cancelled]
    /\ UNCHANGED <<ffmpeg_module, helper_vars, fm_vars, job_vars, batch, window, signals, cancel_at, run_done>>

\* what run() emits for what convert_video returned or raised
ReportOf(result) ==
    IF result.raised THEN Report(FALSE, result.message)
    ELSE Report(result.success, result.message)

\* convert_video comes back and run() emits encoding_finished
ThreadReturn(t) ==
    /\ threads[t].pc = "backend"
    /\ \E result \in ConvertVideoResults :
        threads' = [threads EXCEPT ![t].pc = "done", ![t].backend = result,
                                   ![t].report = ReportOf(result)]
    /\ signals' = Append(signals, t)
    /\ UNCHANGED <<ffmpeg_module, helper_vars, fm_vars, job_vars, batch, window, cancel_at, run_done>>

\* the row colours after file_encoding_finished marked the current row
RowStatus(status, index, success) ==
    IF index < Len(status)
    THEN [status EXCEPT ![index + 1] = IF success THEN "green" ELSE "red"]
    ELSE status

\* MainWindow.file_encoding_finished, with the process_next_file or the
\* encoding_finished it ends in
FileEncodingFinished ==
    /\ signals # <<>>
    /\ LET next_index == window.current_index + 1
           success == threads[Head(signals)].report.success
           marked == RowStatus(window.status, window.current_index, success)
       IN IF next_index < Len(window.file_list)
          THEN /\ StartThread(next_index, cancel_at)
               /\ window' = [window EXCEPT !.start_button = TRUE, !.stop_button = FALSE,
                                           !.status = marked,
                                           !.current_index = next_index,
                                           !.encoder_thread = NextThread]
               /\ UNCHANGED cancel_at
          ELSE /\ window' = [window EXCEPT !.start_button = TRUE, !.stop_button = FALSE,
                                           !.status = marked,
                                           !.current_index = 0, !.encoder_thread = 0]
               /\ cancel_at' = -1
               /\ UNCHANGED <<fm_vars, threads>>
    /\ run_done' = IF window.current_index < Len(window.status)
                   THEN run_done \cup {window.current_index} ELSE run_done
    /\ signals' = Tail(signals)
    /\ UNCHANGED <<ffmpeg_module, helper_vars, job_vars, batch>>

NextUI ==
    \/ \E path \in Paths : AddFile(path)
    \/ StartButton
    \/ StartMenu
    \/ StopButton
    \/ StopMenu
    \/ \E t \in Threads : ThreadBegin(t)
    \/ \E t \in Threads : ThreadPoll(t)
    \/ \E t \in Threads : ThreadCall(t)
    \/ \E t \in Threads : ThreadReturn(t)
    \/ FileEncodingFinished

SpecUI == Init /\ [][NextUI]_vars

\* one step of run() in thread t
ThreadStep(t) == ThreadBegin(t) \/ ThreadPoll(t) \/ ThreadCall(t) \/ ThreadReturn(t)

(***************************************************************************)
(* The file list edited while the batch loop runs: the list, the Remove    *)
(* Selected and Clear All buttons and the context menu are never disabled  *)
(* (set_ui_enabled is only ever called with True).                         *)
(***************************************************************************)

\* takeItem(row): the sequence without its element at the 0-based row
TakeItem(seq, row) == SubSeq(seq, 1, row) \o SubSeq(seq, row + 2, Len(seq))

\* the loop of remove_selected_files over the selected rows, last one first:
\* each takes its item out and moves current_index down when the row was
\* before it
RECURSIVE TakeSelected(_, _)
TakeSelected(w, rows) ==
    IF rows = {} THEN w
    ELSE LET row == CHOOSE r \in rows : \A q \in rows : q <= r
         IN TakeSelected([w EXCEPT !.file_list = TakeItem(@, row),
                                   !.status = TakeItem(@, row),
                                   !.current_index = IF row < @ THEN @ - 1 ELSE @],
                         rows \ {row})

\* FileListWidget.remove_selected_files
RemoveSelectedFiles(rows) ==
    /\ rows # {}
    /\ rows \subseteq 0..(Len(window.file_list) - 1)
    /\ LET w == TakeSelected(window, rows)
       IN window' = [w EXCEPT !.current_index = IF @ >= Len(w.file_list) THEN 0 ELSE @]
    /\ UNCHANGED <<ffmpeg_module, helper_vars, fm_vars, job_vars, batch, threads, signals, cancel_at, run_done>>

\* FileListWidget.clear
ClearFiles ==
    /\ window.file_list # <<>>
    /\ window' = [window EXCEPT !.file_list = <<>>, !.status = <<>>, !.current_index = 0]
    /\ UNCHANGED <<ffmpeg_module, helper_vars, fm_vars, job_vars, batch, threads, signals, cancel_at, run_done>>

NextFileList ==
    \/ \E path \in Paths : AddFile(path)
    \/ \E rows \in SUBSET (0..(MaxFiles - 1)) : RemoveSelectedFiles(rows)
    \/ ClearFiles
    \/ StartButton
    \/ \E t \in Threads : ThreadBegin(t)
    \/ \E t \in Threads : ThreadPoll(t)
    \/ \E t \in Threads : ThreadCall(t)
    \/ \E t \in Threads : ThreadReturn(t)
    \/ FileEncodingFinished

SpecFileList == Init /\ [][NextFileList]_vars

\* the Settings object used alone
SpecSettings == Init /\ [][NextSettings]_vars

(***************************************************************************)
(* EncoderThread on its own: threads are made and started, cancel() is      *)
(* called at any moment, run() takes its steps.                            *)
(***************************************************************************)

\* EncoderThread(...) followed by start(), for any input
ThreadStart(input) ==
    /\ FreeThreads # {}
    /\ threads' = [threads EXCEPT ![NextThread] = NewThread(0, input, -1)]
    /\ UNCHANGED <<ffmpeg_module, helper_vars, fm_vars, job_vars, batch, window, signals, cancel_at, run_done>>

\* EncoderThread.cancel, before, during or after run()
ThreadCancel(t) ==
    /\ threads[t].pc # "unborn"
    /\ ~threads[t].cancelled
    /\ threads' = [threads EXCEPT ![t].cancelled = TRUE]
    /\ UNCHANGED <<ffmpeg_module, helper_vars, fm_vars, job_vars, batch, window, signals, cancel_at, run_done>>

\* run() never looks at the input path itself: one path stands for all
RunInputs == {P_ax}

NextRun ==
    \/ \E input \in RunInputs : ThreadStart(input)
    \/ \E t \in Threads : ThreadCancel(t)
    \/ \E t \in Threads : ThreadBegin(t)
    \/ \E t \in Threads : ThreadPoll(t)
    \/ \E t \in Threads : ThreadCall(t)
    \/ \E t \in Threads : ThreadReturn(t)

SpecRun == Init /\ [][NextRun]_vars

\* a started QThread keeps being scheduled: msleep comes back and so does the
\* backend call
SpecRunLive == SpecRun /\ \A t \in Threads : WF_vars(ThreadStep(t))

(***************************************************************************)
(* Claims about the main window and its encoder threads.                   *)
(***************************************************************************)
\* C8 (as claimed): at most one encoder thread is active at any time: no
\* thread is started while one started before it has yet to report
\* encoding_finished.
C8_AtMostOneActiveThread == Cardinality(ActiveThreads) <= 1

\* C9 (as claimed): once Stop has reached a thread of a run, no file after the
\* one that was current then is handed to an encoder thread in that run.
C9_NoFileStartedAfterCancel ==
    \A t \in Threads :
        (threads[t].pc # "unborn" /\ threads[t].cancel_at_start >= 0)
            => threads[t].index <= threads[t].cancel_at_start

\* C10 (as claimed): a thread whose flag was set at any point before it issued
\* the backend call never invokes the backend.
C10_FlagBeforeCallNeverInvokes ==
    \A t \in Threads : threads[t].invoked => ~threads[t].flag_at_call

\* C10 (amended): the thread polls the flag before every progress increment.
\* A flag that a poll finds set ends the thread with (FALSE, "Encoding
\* cancelled") and the backend is never invoked; a flag set only after the
\* last poll, before or after the backend call is issued, changes nothing: the
\* backend is invoked and the thread reports what it returned, or FALSE with
\* the exception's text when it raised.
C10_CancelHonouredAtPollsOnly ==
    \A t \in Threads :
        LET thr == threads[t]
        IN /\ thr.progress <= thr.polls
           /\ thr.flag_at_poll =>
                /\ thr.pc = "done"
                /\ ~thr.invoked
                /\ thr.report = Report(FALSE, "Encoding cancelled")
           /\ thr.pc \in {"call", "backend"} \/ thr.invoked =>
                /\ ~thr.flag_at_poll
                /\ thr.polls = ProgressSteps
                /\ thr.progress = ProgressSteps
           /\ thr.pc = "done" =>
                /\ thr.report.sent
                /\ thr.invoked # thr.flag_at_poll
                /\ thr.invoked => thr.report = ReportOf(thr.backend)
           /\ thr.pc = "backend" => thr.invoked

\* C10 witness: one thread found the flag set at its second poll and reported
\* the cancellation without the backend; another had the flag set between its
\* last poll and the backend call and reported the backend's success.
C10_Witness ==
    \E t1, t2 \in Threads :
        /\ threads[t1].pc = "done"
        /\ threads[t1].flag_at_poll /\ threads[t1].polls = 2
        /\ ~threads[t1].invoked
        /\ threads[t1].report = Report(FALSE, "Encoding cancelled")
        /\ threads[t2].pc = "done"
        /\ threads[t2].flag_at_call /\ threads[t2].invoked
        /\ threads[t2].report = Report(TRUE, "Successfully converted video")


\* a thread is started for row k in this step
StartedFor(k) ==
    \E t \in Threads :
        /\ threads[t].pc = "unborn"
        /\ threads'[t].pc = "begin"
        /\ threads'[t].index = k

\* C11 (as claimed): once the result of a file has been recorded in a run, the
\* file is final for that run: its recorded result never changes and it is
\* never handed to an encoder thread again.
C11_TerminalIsFinal ==
    [][\A k \in run_done \cap run_done' :
            /\ window'.status[k + 1] = window.status[k + 1]
            /\ ~StartedFor(k)]_vars


(***************************************************************************)
(* Claims about the template engine.                                       *)
(***************************************************************************)
\* a name a file system takes: not empty, none of \ / * ? : " < > | in it, no
\* dot or space at either end
IsSafeName(name) ==
    /\ name # <<>>
    /\ \A i \in 1..Len(name) : name[i] \notin {"\\", "/", "*", "?", ":", "\"", "<", ">", "|"}
    /\ name[1] \notin {".", " "}
    /\ name[Len(name)] \notin {".", " "}

\* C12: whatever the template, the file path, the video info and the quality
\* label, the name apply_prefix_template returns, from its normal path or
\* from its fallback, is not empty, holds none of \ / * ? : " < > | and has
\* no dot or space at either end.
C12_ResolvedNameIsSafe == fm_calls > 0 => IsSafeName(fm_last.filename)

\* C12 witness: a template with illegal characters, leading and trailing dots
\* and spaces was resolved for a file whose stem has them too.
C12_Witness ==
    /\ fm_calls > 0
    /\ fm_last.template = T_odd /\ fm_last.path = P_odd /\ ~fm_last.fallback
    /\ fm_last.quality = Q_slash
    /\ fm_last.filename = <<"a","_","b",".","_","a","_","b","_">>


\* the context the last call of apply_prefix_template substituted from
LastInfo ==
    InfoWithVideo(get_file_info(fm_last.counter_value, fm_last.path, fm_last.file_exists),
                  fm_last.video_info, fm_last.quality)

\* whether s begins with prefix
StartsWith(s, prefix) == Len(s) >= Len(prefix) /\ SubSeq(s, 1, Len(prefix)) = prefix

\* substitution in one pass over the template: each {placeholder} of the
\* template gives way to its value, and the values are not looked at again
RECURSIVE SubstituteOnce(_, _)
SubstituteOnce(template, info) ==
    IF template = <<>> THEN <<>>
    ELSE LET hits == {i \in 1..Len(info) : StartsWith(template, Braced(info[i].k))}
         IN IF hits = {}
            THEN <<Head(template)>> \o SubstituteOnce(Tail(template), info)
            ELSE LET i == CHOOSE h \in hits : TRUE
                 IN info[i].v \o
                    SubstituteOnce(SubSeq(template, Len(info[i].k) + 3, Len(template)), info)

\* C14 (as claimed): substitution is not recursive: the name returned on the
\* normal path is the template with each of its placeholders replaced once by
\* its value, and a value that reads as a placeholder stays as it is.
C14_SubstitutionNotRecursive ==
    (fm_calls > 0 /\ ~fm_last.fallback)
        => fm_last.filename = get_safe_filename(SubstituteOnce(fm_last.template, LastInfo))

\* C15: apply_prefix_template never raises to its caller: a failure while the
\* context is built gives the safety-filtered stem of the input path.
C15_ResolveNeverRaises ==
    fm_calls > 0 =>
        /\ ~fm_last.raised
        /\ VideoInfoRaises(fm_last.video_info) => fm_last.fallback
        /\ fm_last.fallback =>
            /\ fm_last.filename = get_safe_filename(fm_last.path.stem)
            /\ IsSafeName(fm_last.filename)

\* C15 witness: the video info made the call fail for a file whose stem needs
\* the filter, and the call returned the filtered stem.
C15_Witness ==
    /\ fm_calls > 0
    /\ fm_last.video_info = VI_BadDuration
    /\ fm_last.path = P_odd
    /\ fm_last.template = T_odd
    /\ fm_last.fallback /\ ~fm_last.raised
    /\ fm_last.filename = <<"a","_","b">>


(***************************************************************************)
(* PrefixManager.                                                          *)
(***************************************************************************)
\* Calls of validate_template in one behaviour.
MaxValidates == 1

\* the keys of FileManager.PREFIX_PLACEHOLDERS with their braces stripped
ValidPlaceholders ==
    { S_filename, S_ext, S_date, S_time, S_datetime, S_create_date, S_size,
      S_resolution, S_codec, S_duration, S_counter, S_quality, S_source, S_source_full }

\* the characters str.strip() takes away
Whitespace == {" ", "\t", "\n"}

\* the index of the first "}" of s at or after i, or 0
RECURSIVE NextClose(_, _)
NextClose(s, i) ==
    IF i > Len(s) THEN 0
    ELSE IF s[i] = "}" THEN i
    ELSE NextClose(s, i + 1)

\* re.findall(r'\{([^\}]+)\}', template) from index i on: the names found,
\* leftmost first, no two matches overlapping
RECURSIVE FindPlaceholders(_, _)
FindPlaceholders(template, i) ==
    IF i > Len(template) THEN {}
    ELSE IF template[i] # "{" THEN FindPlaceholders(template, i + 1)
    ELSE LET j == NextClose(template, i + 1)
         IN IF j > i + 1
            THEN {SubSeq(template, i + 1, j - 1)} \cup FindPlaceholders(template, j + 1)
            ELSE FindPlaceholders(template, i + 1)

\* validate_template that checks blankness and characters only
validate_template_NoPlaceholderCheck(template) ==
    IF template = <<>> \/ \A i \in 1..Len(template) : template[i] \in Whitespace
    THEN FALSE
    ELSE ~ \E i \in 1..Len(template) : template[i] \in InvalidChars

\* PrefixManager.validate_template
validate_template(template) ==
    IF template = <<>> \/ \A i \in 1..Len(template) : template[i] \in Whitespace
    THEN FALSE
    ELSE IF \E i \in 1..Len(template) : template[i] \in InvalidChars
    THEN FALSE
    ELSE \A placeholder \in FindPlaceholders(template, 1) :
            placeholder \in ValidPlaceholders

\* the pieces templates are put together from: braces, a placeholder name,
\* a name that is no placeholder, a space, an illegal character, nothing
Pieces == { <<"{">>, <<"}">>, S_ext, <<"x">>, <<" ">>, <<"/">>, <<>> }

\* the templates handed to validate_template: every three pieces in a row,
\* the templates of the other sections, and longer ones with doubled braces,
\* several placeholders and whitespace of every kind
ValidateTemplates ==
    { a \o b \o c : a \in Pieces, b \in Pieces, c \in Pieces }
    \cup Templates \cup OddTemplates
    \cup { <<"{">> \o Braced(S_ext), Braced(S_ext) \o <<"}">>,
           Braced(S_ext) \o Braced(<<"x">>), Braced(<<"x">>) \o Braced(S_ext),
           Braced(S_source) \o <<"_">> \o Braced(S_filename) \o <<"_">> \o Braced(S_quality),
           Braced(<<" ">> \o S_ext \o <<" ">>), Braced(Braced(S_ext)),
           <<"\t", "\n", " ">>, <<"\t">> \o Braced(S_ext) \o <<"\n">>,
           Braced(S_ext) \o <<"{">> \o S_ext, <<"}">> \o S_ext \o <<"{">> }

\* a direct call of validate_template
ValidateTemplate(template) ==
    /\ pm.calls < MaxValidates
    /\ pm' = [pm EXCEPT !.calls = @ + 1, !.template = template,
                        !.valid = validate_template(template)]
    /\ UNCHANGED <<ffmpeg_module, fm_vars, job_vars, batch, ui_vars, fps_call, gop, user_settings>>

\* PrefixManager.save_custom_template
SaveCustomTemplate(name, template) ==
    /\ pm' = IF validate_template(template)
             THEN [pm EXCEPT !.custom_templates =
                        {t \in @ : t[1] # name} \cup {<<name, template>>}]
             ELSE pm
    /\ UNCHANGED <<ffmpeg_module, fm_vars, job_vars, batch, ui_vars, fps_call, gop, user_settings>>

\* PrefixManager.delete_custom_template
DeleteCustomTemplate(name) ==
    /\ pm' = [pm EXCEPT !.custom_templates = {t \in @ : t[1] # name}]
    /\ UNCHANGED <<ffmpeg_module, fm_vars, job_vars, batch, ui_vars, fps_call, gop, user_settings>>

NextPM ==
    \/ \E template \in ValidateTemplates : ValidateTemplate(template)
    \/ \E template \in {T_filename_counter, T_odd} : SaveCustomTemplate("mine", template)
    \/ DeleteCustomTemplate("mine")

SpecPM == Init /\ [][NextPM]_vars

\* whether a template is empty or whitespace only
IsBlank(template) == \A i \in 1..Len(template) : template[i] \in {" ", "\t", "\n"}

\* the names of the {...} tokens of a template: what stands between a "{" and
\* the first "}" after it, when something does
TokenNames(template) ==
    { SubSeq(template, i + 1, j - 1) :
        <<i, j>> \in { p \in (1..Len(template)) \X (1..Len(template)) :
                        /\ p[2] > p[1] + 1
                        /\ template[p[1]] = "{"
                        /\ template[p[2]] = "}"
                        /\ \A k \in (p[1] + 1)..(p[2] - 1) : template[k] # "}" } }

\* what the claim has validate return for a template
ShouldBeValid(template) ==
    /\ ~IsBlank(template)
    /\ \A i \in 1..Len(template) :
            template[i] \notin {"\\", "/", "*", "?", ":", "\"", "<", ">", "|"}
    /\ TokenNames(template) \subseteq ValidPlaceholders

\* C13: validate_template returns TRUE for a template that is not blank, has
\* no illegal filename character and whose {...} tokens all name recognized
\* placeholders, and FALSE for every other template; a call changes neither
\* the counter nor the stored templates.
C13_ValidateDecidesAndKeepsState ==
    [][pm'.calls # pm.calls =>
            /\ pm'.valid = ShouldBeValid(pm'.template)
            /\ pm'.custom_templates = pm.custom_templates
            /\ fm_counter' = fm_counter]_vars

\* C13 witness: with a custom template stored, a template of three recognized
\* placeholders was accepted.
C13_Witness ==
    /\ pm.calls > 0
    /\ pm.custom_templates # {}
    /\ pm.template = Braced(S_source) \o <<"_">> \o Braced(S_filename) \o <<"_">> \o Braced(S_quality)
    /\ pm.valid


(***************************************************************************)
(* Claims about the bitrate plan.                                          *)
(***************************************************************************)
\* the bitrate the claim gives for a target size in MB and a duration in
\* seconds: floor(target*8*1024*1024*0.95 / duration) - 128*1024, where
\* 8*1024*1024*0.95 is 7969177.6
ClaimedBitrate(target_size_mb, duration) ==
    (target_size_mb * 79691776) \div (10 * duration) - 128 * 1024

\* C16: whenever the plan of a target-size encode succeeds, the bitrate given
\* to both passes is floor(targetSizeMB*8*1024*1024*0.95 / durationSeconds)
\* - 128*1024 and is positive; the plan succeeds whenever the duration is
\* positive and that number is positive, as for 120 seconds and 10 MB.
C16_PlannedBitrate ==
    \A j \in Slots :
        LET job == jobs[j]
        IN /\ (job.planned /\ job.temp_dir # 0) =>
                /\ job.duration > 0
                /\ job.video_bitrate = ClaimedBitrate(job.target_size, job.duration)
                /\ job.video_bitrate > 0
                /\ job.first_pass.pass = 1 => job.first_pass.b = job.video_bitrate
                /\ job.second_pass.pass = 2 => job.second_pass.b = job.video_bitrate
           /\ (job.planned /\ job.duration > 0
                    /\ ClaimedBitrate(job.target_size, job.duration) > 0) =>
                job.temp_dir # 0
           /\ (job.planned /\ job.duration = 120 /\ job.target_size = 10) =>
                /\ job.video_bitrate = 533026
                /\ job.temp_dir # 0

\* C16 witness: both passes of a 10 MB encode of the 120 second file ran.
C16_Witness ==
    /\ jobs["A"].duration = 120
    /\ jobs["A"].target_size = 10
    /\ jobs["A"].first_pass.b = 533026
    /\ jobs["A"].second_pass.pass = 2
    /\ jobs["A"].second_pass.b = 533026

\* a job for which neither the scratch directory was made nor the backend invoked
NothingRun(job) ==
    /\ job.temp_dir = 0
    /\ job.first_pass = NoArgs
    /\ job.second_pass = NoArgs
    /\ job.single = NoArgs
    /\ job.pass1 = ""
    /\ job.pass2 = ""
    /\ ~job.wrote

\* C17: a target-size encode of a file whose duration is <= 0 or unknown
\* returns the failed result "Could not determine video duration"; no scratch
\* directory is made and the backend is invoked for neither pass.
C17_InvalidDurationFails ==
    \A j \in Slots :
        LET job == jobs[j]
        IN (job.planned /\ job.duration <= 0) =>
                /\ job.pc = "returned"
                /\ job.result = Returned(FALSE, "Could not determine video duration")
                /\ NothingRun(job)
                /\ tmp_dirs = {}

\* C17 witness: a target-size encode whose probe gave no duration has returned.
C17_Witness ==
    /\ jobs["A"].pc = "returned"
    /\ jobs["A"].planned
    /\ jobs["A"].target_size = 10
    /\ jobs["A"].duration = 0
    /\ ~jobs["A"].result.success

\* C18: a target-size encode whose computed bitrate is <= 0, as for 600
\* seconds and 1 MB, returns the failed result "Target size too small for this
\* video duration" without invoking the backend; every pass the backend is
\* invoked for has a strictly positive bitrate.
C18_TargetTooSmallFails ==
    \A j \in Slots :
        LET job == jobs[j]
        IN /\ (job.planned /\ job.duration > 0
                    /\ ClaimedBitrate(job.target_size, job.duration) <= 0) =>
                /\ job.pc = "returned"
                /\ job.result =
                     Returned(FALSE, "Target size too small for this video duration")
                /\ NothingRun(job)
           /\ (job.planned /\ job.duration = 600 /\ job.target_size = 1) =>
                job.result.message = "Target size too small for this video duration"
           /\ job.first_pass.pass = 1 => job.first_pass.b > 0
           /\ job.second_pass.pass = 2 => job.second_pass.b > 0

\* C18 witness: a 1 MB encode of the 600 second file has returned.
C18_Witness ==
    /\ jobs["A"].pc = "returned"
    /\ jobs["A"].planned
    /\ jobs["A"].duration = 600
    /\ jobs["A"].target_size = 1
    /\ jobs["A"].video_bitrate < 0

\* C19 (as claimed): convert_video never raises; every call ends in a
\* returned result.
C19_ConvertVideoNeverRaises ==
    \A j \in Slots : ~jobs[j].result.raised


(***************************************************************************)
(* The output frame rate.                                                  *)
(***************************************************************************)
\* VideoEncoder._parse_frame_rate on an avg_frame_rate string: "num/den" when
\* has_slash, else "num"; is_number is FALSE for a string such as "N/A" whose
\* parts int() or float() reject (ValueError, caught: 0.0).  The rates taken
\* as input are whole numbers of frames per second, so num / den is exact.
parse_frame_rate(frame_rate_str) ==
    IF frame_rate_str.has_slash
    THEN IF ~frame_rate_str.is_number THEN 0
         ELSE IF frame_rate_str.den # 0
              THEN frame_rate_str.num \div frame_rate_str.den
              ELSE 0
    ELSE IF frame_rate_str.is_number THEN frame_rate_str.num ELSE 0

\* the source frame rates probed, in frames per second
SourceRates == {-30, 0, 10, 15, 19, 20, 21, 30, 45, 59, 60, 61, 90, 120, 240}

\* the avg_frame_rate strings ffprobe gives: "n/1", "n/0", "2n/2", "n", "N/A"
FrameRates ==
    { FrameRate(TRUE, TRUE, n, 1) : n \in SourceRates }
    \cup { FrameRate(TRUE, TRUE, n, 0) : n \in SourceRates }
    \cup { FrameRate(TRUE, TRUE, 2 * n, 2) : n \in SourceRates }
    \cup { FrameRate(TRUE, FALSE, n, 1) : n \in SourceRates }
    \cup { FrameRate(FALSE, TRUE, 0, 0) }

\* get_video_info for a stream with this avg_frame_rate: {} when the probe fails
ProbedInfo(probe_ok, frame_rate_str) ==
    IF probe_ok THEN VI_Full(120, parse_frame_rate(frame_rate_str)) ELSE VI_Empty

\* a call of _get_optimal_fps; ffmpeg.probe cannot succeed where the ffmpeg
\* module is missing
GetOptimalFps(probe_ok, frame_rate_str) ==
    /\ probe_ok => ffmpeg_module
    /\ fps_call' = [called |-> TRUE, probe_ok |-> probe_ok,
                    frame_rate |-> frame_rate_str,
                    fps |-> get_optimal_fps(ProbedInfo(probe_ok, frame_rate_str))]
    /\ UNCHANGED <<ffmpeg_module, fm_vars, job_vars, batch, ui_vars, pm, gop, user_settings>>

NextFps ==
    \E probe_ok \in BOOLEAN, frame_rate_str \in FrameRates :
        GetOptimalFps(probe_ok, frame_rate_str)

SpecFps == Init /\ [][NextFps]_vars

\* C20: the output frame rate for a source rate f is f when 20 <= f <= 60,
\* 60 when f > 60, and 30 when f < 20, when f is unknown (0) and when the
\* probe fails: 15 gives 30, 45 gives 45, 90 gives 60, 0 gives 30, and the
\* result is always within [20, 60].
C20_OptimalFps ==
    fps_call.called =>
        LET fr == fps_call.frame_rate
            den == IF fr.has_slash THEN fr.den ELSE 1
            known == fps_call.probe_ok /\ fr.is_number /\ den # 0
            fps == fps_call.fps
        IN /\ (known /\ 20 * den <= fr.num /\ fr.num <= 60 * den) => fps * den = fr.num
           /\ (known /\ fr.num > 60 * den) => fps = 60
           /\ (known /\ fr.num < 20 * den) => fps = 30
           /\ ~known => fps = 30
           /\ (fps_call.probe_ok /\ fr = FrameRate(TRUE, TRUE, 15, 1)) => fps = 30
           /\ (fps_call.probe_ok /\ fr = FrameRate(TRUE, TRUE, 45, 1)) => fps = 45
           /\ (fps_call.probe_ok /\ fr = FrameRate(TRUE, TRUE, 90, 1)) => fps = 60
           /\ (fps_call.probe_ok /\ fr = FrameRate(TRUE, TRUE, 0, 1)) => fps = 30
           /\ 20 <= fps /\ fps <= 60

\* C20 witness: a source of 90 frames per second was capped at 60.
C20_Witness ==
    /\ fps_call.called
    /\ fps_call.probe_ok
    /\ fps_call.frame_rate = FrameRate(TRUE, TRUE, 90, 1)
    /\ fps_call.fps = 60


(***************************************************************************)
(* Claims about the backend invocations of convert_video.                  *)
(***************************************************************************)
\* a call that has returned after its input passed both checks of convert_video
Accepted(job) ==
    /\ job.pc = "returned"
    /\ job.input \in ExistingFiles
    /\ is_supported_format(job.input)
    /\ ~job.result.raised

\* the containers convert_video has a codec branch for
CodecContainers == {<<"m","p","4">>, <<"m","k","v">>, <<"m","o","v">>, <<"w","e","b","m">>}

ClaimedScale(settings) ==
    IF settings.has_resolution
    THEN <<"scale", IntToStr(settings.width), IntToStr(settings.height)>>
    ELSE <<"scale", "trunc(iw/2)*2", "trunc(ih/2)*2">>

\* C22 (as claimed): every single-pass encode, whatever the container, the
\* generic fallback included, gives the backend a video stream with the scale
\* filter applied: the preset's resolution when it has one, else the filter
\* that makes width and height even.
C22_SinglePassAlwaysScaled ==
    \A j \in Slots :
        LET job == jobs[j]
        IN job.single # NoArgs =>
                job.single.scale = ClaimedScale(quality_settings(job.quality))

\* the invocations a job has made
Invocations(job) ==
    {args \in {job.single, job.first_pass, job.second_pass} : args # NoArgs}

\* C23 (as claimed): the codecs depend on the container only: mp4, mkv and
\* mov get H.264 video and AAC audio, webm gets VP9 and Opus, and any other
\* container gets the generic fallback, whose only argument is the speed
\* preset.
C23_CodecByContainer ==
    \A j \in Slots :
        \A args \in Invocations(jobs[j]) :
            IF jobs[j].output_format \in {<<"m","p","4">>, <<"m","k","v">>, <<"m","o","v">>}
            THEN args.vcodec = "libx264" /\ (args.audio => args.acodec = "aac")
            ELSE IF jobs[j].output_format = <<"w","e","b","m">>
            THEN args.vcodec = "libvpx-vp9" /\ (args.audio => args.acodec = "libopus")
            ELSE args.kwargs = {"preset"}

\* C23 (amended): the codecs depend on the container only: mp4, mkv and mov
\* get H.264 video and, where audio is encoded, AAC; webm gets VP9 and Opus;
\* any other container gets no codec argument at all: the single-pass
\* fallback is given the speed preset alone, and the two passes of a
\* target-size encode are given the bitrate, the pass number and the pass log
\* (and the null format in pass 1) and no speed preset.
C23_CodecByContainerAndMode ==
    \A j \in Slots :
        \A args \in Invocations(jobs[j]) :
            IF jobs[j].output_format \in {<<"m","p","4">>, <<"m","k","v">>, <<"m","o","v">>}
            THEN /\ args.vcodec = "libx264" /\ "vcodec" \in args.kwargs
                 /\ args.audio => (args.acodec = "aac" /\ "acodec" \in args.kwargs)
            ELSE IF jobs[j].output_format = <<"w","e","b","m">>
            THEN /\ args.vcodec = "libvpx-vp9" /\ "vcodec" \in args.kwargs
                 /\ args.audio => (args.acodec = "libopus" /\ "acodec" \in args.kwargs)
            ELSE /\ args.vcodec = "" /\ args.acodec = ""
                 /\ args.kwargs = IF args.pass = 0 THEN {"preset"}
                                  ELSE IF args.pass = 1
                                  THEN {"b", "pass", "f", "passlogfile"}
                                  ELSE {"b", "pass", "passlogfile"}

\* C23 witness: the first pass of a target-size encode to avi ran and the
\* second is due.
C23_Witness ==
    /\ jobs["A"].output_format = F_avi
    /\ jobs["A"].pc = "pass2"
    /\ jobs["A"].first_pass.kwargs = {"b", "pass", "f", "passlogfile"}

\* C24: every backend invocation (single pass, pass 1, pass 2) carries the
\* overwrite flag, and convert_video neither skips the invocation nor changes
\* the output path it was given, whether or not that output exists.
C24_AlwaysOverwrites ==
    [][\A j \in Slots :
        LET job == jobs[j]
            after == jobs'[j]
        IN /\ \A args \in Invocations(after) : args.overwrite
           /\ job.pc \in {"call", "single", "two_pass", "pass1", "pass2"} =>
                after.output = job.output
           /\ job.pc = "single" => after.single # NoArgs
           /\ job.pc = "pass1" => after.first_pass # NoArgs
           /\ job.pc = "pass2" => after.second_pass # NoArgs]_vars

\* C24 witness: the first pass of an encode whose output was there before the
\* call was invoked with the overwrite flag, and the second pass is due.
C24_Witness ==
    /\ jobs["A"].pc = "pass2"
    /\ jobs["A"].output \in out_files
    /\ jobs["A"].first_pass.overwrite


(***************************************************************************)
(* Claims about the placeholders left in a resolved name.                  *)
(***************************************************************************)
\* C25 (as claimed): for a template validate_template accepts and any input
\* path, whether the file exists or not, the filename apply_prefix_template
\* returns holds no {name} token of a recognized placeholder.
C25_NoPlaceholderLeft ==
    (fm_calls > 0 /\ validate_template(fm_last.template)) =>
        \A name \in ValidPlaceholders :
            ~StrContains(fm_last.filename, <<"{">> \o name \o <<"}">>)


(***************************************************************************)
(* FileManager.generate_output_path.  A path in the output directory is    *)
(* written as its file name; out_files are the files of that directory.    *)
(***************************************************************************)
\* The highest _k suffix among the files found in the output directory.
MaxSuffix == 2

\* str.lstrip('.')
RECURSIVE LStripDots(_)
LStripDots(s) == IF s # <<>> /\ Head(s) = "." THEN LStripDots(Tail(s)) ELSE s

\* os.path.splitext of a file name: the extension starts at the last dot,
\* unless only dots come before it
splitext(p) ==
    LET dots == {i \in 1..Len(p) : p[i] = "."}
        d == IF dots = {} THEN 0 ELSE CHOOSE i \in dots : \A k \in dots : k <= i
    IN IF d > 0 /\ \E i \in 1..(d - 1) : p[i] # "."
       THEN <<SubSeq(p, 1, d - 1), SubSeq(p, d, Len(p))>>
       ELSE <<p, <<>>>>

\* a loop that puts the suffix on the path it tried last
RECURSIVE ResolveConflict_Chained(_, _, _, _)
ResolveConflict_Chained(existing, base_path, output_path, counter) ==
    IF output_path \notin existing THEN output_path
    ELSE LET name_ext == splitext(output_path)
         IN ResolveConflict_Chained(existing, base_path,
                name_ext[1] \o <<"_">> \o IntToStr(counter) \o name_ext[2], counter + 1)

\* generate_output_path, lines 202-208: the loop on os.path.exists
RECURSIVE ResolveConflict(_, _, _, _)
ResolveConflict(existing, base_path, output_path, counter) ==
    IF output_path \notin existing THEN output_path
    ELSE LET name_ext == splitext(base_path)
         IN ResolveConflict(existing, base_path,
                name_ext[1] \o <<"_">> \o IntToStr(counter) \o name_ext[2], counter + 1)

\* generate_output_path after the filename was resolved (lines 195-210)
generate_output_path(existing, filename, output_format) ==
    LET output_path == filename \o <<".">> \o LStripDots(output_format)
    IN ResolveConflict(existing, output_path, output_path, 1)

\* the templates, inputs and formats generate_output_path is called with
GopTemplates == {T_filename, T_odd}
GopPaths == {P_ax, P_odd}
GopFormats == {F_mp4, <<".">> \o F_mp4, F_webm}

\* file names with a dot inside and without one
DirStems == {<<"x">>, <<"a","_","b",".","_","7","2","0","p","_">>}

\* the files another run or another program can have left in the output directory
DirFiles ==
    { stem \o <<".">> \o F_mp4 : stem \in DirStems }
    \cup { stem \o <<"_">> \o IntToStr(k) \o <<".">> \o F_mp4 :
                stem \in DirStems, k \in 1..MaxSuffix }

\* the output directory as the calls find it: a file was put there before
CreateFile(name) ==
    /\ ~gop.called
    /\ name \notin out_files
    /\ out_files' = out_files \cup {name}
    /\ UNCHANGED <<ffmpeg_module, helper_vars, ui_vars, fm_vars, batch, jobs, tmp_dirs>>

\* a call of generate_output_path on the shared FileManager
GenerateOutputPath(template, path, output_format, video_info, quality) ==
    /\ fm_calls < MaxResolves
    /\ LET r == apply_prefix_template(fm_counter, template, path,
                                      path \in ExistingFiles, video_info, quality)
       IN /\ fm_counter' = r.counter
          /\ fm_last' = LastCall(r, template, path, path \in ExistingFiles,
                                 video_info, quality)
          /\ fm_fallbacks' = fm_fallbacks + (IF r.fallback THEN 1 ELSE 0)
          /\ gop' = [called |-> TRUE, existing |-> out_files,
                     filename |-> r.filename, output_format |-> output_format,
                     output_path |-> generate_output_path(out_files, r.filename,
                                                          output_format)]
    /\ fm_calls' = fm_calls + 1
    /\ UNCHANGED <<ffmpeg_module, pm, fps_call, user_settings, ui_vars, job_vars, batch>>

NextOutputPath ==
    \/ \E name \in DirFiles : CreateFile(name)
    \/ \E template \in GopTemplates, path \in GopPaths, output_format \in GopFormats :
            GenerateOutputPath(template, path, output_format, VI_Empty, Q_720p)

SpecOutputPath == Init /\ [][NextOutputPath]_vars

\* <name>_k.<fmt>
Suffixed(name, k, fmt) == name \o <<"_">> \o IntToStr(k) \o <<".">> \o fmt

\* an output format without the dots in front of it
BareFormat(fmt) == IF Head(fmt) = "." THEN Tail(fmt) ELSE fmt

\* C26: generate_output_path returns <name>.<fmt> when no file of the output
\* directory has that name, and otherwise <name>_k.<fmt> for the smallest
\* k >= 1 that no file has; the path returned names no file that exists when
\* it is returned.
C26_FirstFreeSuffix ==
    gop.called =>
        LET fmt == BareFormat(gop.output_format)
            plain == gop.filename \o <<".">> \o fmt
        IN /\ gop.output_path \notin gop.existing
           /\ plain \notin gop.existing => gop.output_path = plain
           /\ plain \in gop.existing =>
                \E k \in 1..(MaxSuffix + 1) :
                    /\ gop.output_path = Suffixed(gop.filename, k, fmt)
                    /\ \A i \in 1..(k - 1) : Suffixed(gop.filename, i, fmt) \in gop.existing

\* C26 witness: with <name>.mp4 and <name>_1.mp4 in the directory, for a name
\* with a dot inside, <name>_2.mp4 was returned.
C26_Witness ==
    /\ gop.called
    /\ gop.filename = <<"a","_","b",".","_","7","2","0","p","_">>
    /\ gop.existing = { gop.filename \o <<".">> \o F_mp4,
                        Suffixed(gop.filename, 1, F_mp4) }
    /\ gop.output_path = Suffixed(gop.filename, 2, F_mp4)


(***************************************************************************)
(* Claims about the batch loop of the main window                          *)
(***************************************************************************)

\* the encoder threads of the run in progress: still running, or finished
\* with their encoding_finished signal not yet handled by the window
InFlight == ActiveThreads \cup {signals[n] : n \in 1..Len(signals)}

NoCancellation(thrs) == \A t \in Threads : ~thrs[t].cancelled

\* C27 (as claimed): without cancellation, a run hands every listed file to an
\* encoder thread exactly once: no file is given to a new thread while a thread
\* of the same run is still in flight for that file.
C27_EachFileHandedOnce ==
    [][(NoCancellation(threads) /\ NoCancellation(threads'))
       => \A k \in 0..(Len(window.file_list) - 1) :
             StartedFor(k)
             => \A t \in InFlight : threads[t].input # window.file_list[k + 1]]_vars

\* thread t emits encoding_finished in this step
EmitsFinished(t) == signals' = Append(signals, t)

\* C28: every run of an EncoderThread emits encoding_finished exactly once,
\* whichever way it ends: the emit ends the run, the run cannot end without
\* it and does end, nothing (no progress_update, no second emit) comes from
\* the thread afterwards, and the progress values it emits never go down and
\* stay within 0..ProgressSteps.
C28_FinishedExactlyOnce ==
    /\ [][\A t \in Threads :
            /\ EmitsFinished(t) => IsRunning(threads[t]) /\ threads'[t].pc = "done"
            /\ (IsRunning(threads[t]) /\ threads'[t].pc = "done")
               => EmitsFinished(t) /\ threads'[t].report.sent
            /\ threads[t].pc = "done"
               => /\ threads'[t].pc = "done"
                  /\ threads'[t].progress = threads[t].progress
                  /\ threads'[t].report = threads[t].report
            /\ threads[t].pc # "unborn"
               => /\ threads'[t].pc # "unborn"
                  /\ threads[t].progress <= threads'[t].progress
                  /\ threads'[t].progress \in 0..ProgressSteps]_vars
    /\ \A t \in Threads : (threads[t].pc = "begin") ~> (threads[t].pc = "done")

\* two runs have ended, one on the cancelled path in the middle of the loop and
\* one on the exception path after the whole progress loop, each with its one
\* encoding_finished emitted
C28_Witness ==
    \E t, u \in Threads :
        /\ threads[t].pc = "done" /\ threads[t].report.sent
        /\ threads[t].flag_at_poll /\ threads[t].progress < ProgressSteps
        /\ threads[u].pc = "done" /\ threads[u].report.sent
        /\ threads[u].backend.raised /\ threads[u].progress = ProgressSteps

\* file_encoding_finished finds no further row and ends the batch
BatchCompletes == signals # <<>> /\ signals' = Tail(signals) /\ threads' = threads

\* the file was given to an encoder thread
EverHanded(path) == \E t \in Threads : threads[t].pc # "unborn" /\ threads[t].input = path

\* C29 (as claimed): whatever is added to, removed from or cleared out of the
\* list while the batch loop runs, current_index is never negative, a row
\* picked for encoding is a row of the list, and no file is skipped: when the
\* batch completes every file in the list has been given to an encoder thread.
C29_RemovalKeepsBatchSound ==
    [][/\ window'.current_index >= 0
       /\ \A k \in 0..(MaxFiles - 1) :
             StartedFor(k) => k < Len(window.file_list)
       /\ BatchCompletes
          => \A n \in 1..Len(window'.file_list) : EverHanded(window'.file_list[n])]_vars

(***************************************************************************)
(* Claims about Settings                                                   *)
(***************************************************************************)

\* the defaults as the source file states them
PristineDefaults ==
    [theme |-> "system", max_recent_files |-> 10,
     shortcuts |-> DefaultShortcuts, recent_files |-> <<>>]

\* C30 (as claimed): right after reset() every setting has its pristine
\* default, whatever set, add_recent_file and set_shortcut did before: in
\* particular recent_files is empty and shortcuts is the default map.
C30_ResetRestoresDefaults ==
    user_settings.last = "reset" => Visible(user_settings) = PristineDefaults

=============================================================================
